---- MODULE Spec2Model ----
(***************************************************************************)
(* ScrollLearn: the SM-2 scheduler (background/scheduler.ts), the answer   *)
(* grader (common/grading.ts), the fuzzy matcher (common/fuzzy.ts), the    *)
(* text normaliser (common/parser.ts) and the background message handlers  *)
(* over chrome.storage (background/index.ts, common/storage.ts).           *)
(*                                                                         *)
(* Number representation.                                                  *)
(*   - Timestamps and durations are whole MINUTES (the source uses         *)
(*     milliseconds; every duration the source adds is a whole number of   *)
(*     minutes, and 365 days in ms does not fit TLC's 32-bit integers).    *)
(*   - ease and the fuzzy thresholds are HUNDREDTHS (2.5 is 250).          *)
(*   - similarity scores are exact fractions <<num, den>>.                 *)
(*   - ease arithmetic is exact decimal.  The source's doubles can carry   *)
(*     an ulp of drift (2.45 held as 2.4499999999999997), which moves      *)
(*     Math.round by one day only at an exact .5 tie of the product.       *)
(***************************************************************************)
EXTENDS Integers, Sequences, FiniteSets, TLC

VARIABLES
    now,        \* Date.now(), in minutes
    card,       \* scheduler harness: the card the reviews are applied to
    upd,        \* scheduler harness: arguments of the last sm2Update call
    gin,        \* grader harness: the arguments of gradeAnswer
    gout,       \* grader harness: what gradeAnswer returned (or threw)
    cards,      \* storage: scrolllearn_cards
    decks,      \* storage: scrolllearn_decks
    settings,   \* storage: scrolllearn_settings
    snoozed,    \* storage: scrolllearn_snoozed_cards
    stats,      \* storage: scrolllearn_stats
    paused,     \* storage: scrolllearn_paused_sites
    currentCard,\* content script: the card of the quiz on screen (<<>> is null)
    response,   \* the response of the last message handled
    inflight,   \* background: the card_answered handlers suspended at an await
    quiz,       \* content script: the flags and the controls of the quiz on screen
    fin,        \* function harnesses: the arguments of the function applied
    fout        \* function harnesses: what it returned

vars == <<now, card, upd, gin, gout, cards, decks, settings, snoozed, stats, paused, currentCard, response,
         inflight, quiz, fin, fout>>

schedVars == <<card, upd>>
gradeVars == <<gin, gout>>
fuzzyVars == <<fin, fout>>
sysVars == <<cards, decks, settings, snoozed, stats, paused, currentCard, response, inflight, quiz>>

None == "none"

Max(a, b) == IF a >= b THEN a ELSE b
Min(a, b) == IF a <= b THEN a ELSE b

(***************************************************************************)
(* Bounds of the model.                                                    *)
(***************************************************************************)
MaxReps == 5
MaxLapses == 2
MaxNow == 10
TickMinutes == 5
MaxStrLen == 2
MaxSel == 3
MaxReviews == 2
MaxFuzzyLen == 3
MaxSortLen == 3
MaxTextLen == 3
MaxGrades == 5

(***************************************************************************)
(* background/scheduler.ts                                                 *)
(***************************************************************************)
MIN_EASE == 130
DEFAULT_EASE == 250
MAX_EASE == 350
MIN_PER_DAY == 1440
FAIL_INTERVAL_MINUTES == 10
MAX_INTERVAL == 365

Grades == 0..3

INITIAL_INTERVALS == [g \in Grades |-> CASE g = 0 -> 1 [] g = 1 -> 1 [] g = 2 -> 1 [] g = 3 -> 4]

SECOND_INTERVALS == [g \in Grades |-> CASE g = 0 -> 1 [] g = 1 -> 3 [] g = 2 -> 6 [] g = 3 -> 10]

\* Math.round of the non-negative fraction n/d: floor(n/d + 1/2).
RoundDiv(n, d) == (2 * n + d) \div (2 * d)

\* prevInterval * ease * factor, factor in tenths (0.8, 1.0, 1.3), ease in hundredths.
GradeFactor(grade) == CASE grade = 1 -> 8 [] grade = 2 -> 10 [] grade = 3 -> 13

\* Variant without the upper clamp.
calculateIntervalNoClamp(prevInterval, ease, grade) ==
    Max(1, IF grade \in 1..3
             THEN RoundDiv(prevInterval * ease * GradeFactor(grade), 1000)
             ELSE 1)

\* Variant without the one-day floor.
calculateIntervalNoFloor(prevInterval, ease, grade) ==
    Min(365, IF grade \in 1..3
               THEN RoundDiv(prevInterval * ease * GradeFactor(grade), 1000)
               ELSE 1)

calculateInterval(prevInterval, ease, grade) ==
    LET newInterval == IF grade \in 1..3
                         THEN RoundDiv(prevInterval * ease * GradeFactor(grade), 1000)
                         ELSE 1
    IN  Max(1, Min(MAX_INTERVAL, newInterval))

EaseDelta(grade) ==
    CASE grade = 0 -> -20 [] grade = 1 -> -15 [] grade = 2 -> 0 [] grade = 3 -> 15 [] OTHER -> 0

\* A variant without the clamp to MAX_EASE.
calculateNewEaseNoCeiling(currentEase, grade) ==
    Max(MIN_EASE, currentEase + EaseDelta(grade))

calculateNewEase(currentEase, grade) ==
    Max(MIN_EASE, Min(MAX_EASE, currentEase + EaseDelta(grade)))

\* Variant: a failed card is rescheduled a day ahead with interval 1 (the
\* behaviour before the ten-minute relearn delay).
sm2UpdateFailTomorrow(c, grade, t) ==
    IF grade = 0
      THEN [c EXCEPT !.updatedAt = t,
                     !.repetitions = 0,
                     !.intervalDays = 1,
                     !.ease = Max(MIN_EASE, c.ease - 20),
                     !.lapses = c.lapses + 1,
                     !.due = t + MIN_PER_DAY]
      ELSE LET iv == IF c.repetitions = 0 THEN INITIAL_INTERVALS[grade]
                     ELSE IF c.repetitions = 1 THEN SECOND_INTERVALS[grade]
                     ELSE calculateInterval(c.intervalDays, c.ease, grade)
           IN  [c EXCEPT !.updatedAt = t,
                         !.repetitions = c.repetitions + 1,
                         !.intervalDays = iv,
                         !.ease = calculateNewEase(c.ease, grade),
                         !.due = t + iv * MIN_PER_DAY]

\* Variant: the ease is updated first and the interval computed from the new ease.
sm2UpdateEaseFirst(c, grade, t) ==
    IF grade = 0
      THEN [c EXCEPT !.updatedAt = t,
                     !.repetitions = 0,
                     !.intervalDays = 0,
                     !.ease = Max(MIN_EASE, c.ease - 20),
                     !.lapses = c.lapses + 1,
                     !.due = t + FAIL_INTERVAL_MINUTES]
      ELSE LET e  == calculateNewEase(c.ease, grade)
               iv == IF c.repetitions = 0 THEN INITIAL_INTERVALS[grade]
                     ELSE IF c.repetitions = 1 THEN SECOND_INTERVALS[grade]
                     ELSE calculateInterval(c.intervalDays, e, grade)
           IN  [c EXCEPT !.updatedAt = t,
                         !.repetitions = c.repetitions + 1,
                         !.intervalDays = iv,
                         !.ease = e,
                         !.due = t + iv * MIN_PER_DAY]

\* sm2Update(card, grade), with Date.now() = t.
\* Variant: a failed card keeps its repetitions.
sm2UpdateKeepRepetitions(c, grade, t) ==
    IF grade = 0
      THEN [c EXCEPT !.updatedAt = t,
                     !.intervalDays = 0,
                     !.ease = Max(MIN_EASE, c.ease - 20),
                     !.lapses = c.lapses + 1,
                     !.due = t + FAIL_INTERVAL_MINUTES]
      ELSE LET iv == IF c.repetitions = 0 THEN INITIAL_INTERVALS[grade]
                     ELSE IF c.repetitions = 1 THEN SECOND_INTERVALS[grade]
                     ELSE calculateInterval(c.intervalDays, c.ease, grade)
           IN  [c EXCEPT !.updatedAt = t,
                         !.repetitions = c.repetitions + 1,
                         !.intervalDays = iv,
                         !.ease = calculateNewEase(c.ease, grade),
                         !.due = t + iv * MIN_PER_DAY]

sm2Update(c, grade, t) ==
    IF grade = 0
      THEN [c EXCEPT !.updatedAt = t,
                     !.repetitions = 0,
                     !.intervalDays = 0,
                     !.ease = Max(MIN_EASE, c.ease - 20),
                     !.lapses = c.lapses + 1,
                     !.due = t + FAIL_INTERVAL_MINUTES]
      ELSE LET iv == IF c.repetitions = 0 THEN INITIAL_INTERVALS[grade]
                     ELSE IF c.repetitions = 1 THEN SECOND_INTERVALS[grade]
                     ELSE calculateInterval(c.intervalDays, c.ease, grade)
           IN  [c EXCEPT !.updatedAt = t,
                         !.repetitions = c.repetitions + 1,
                         !.intervalDays = iv,
                         !.ease = calculateNewEase(c.ease, grade),
                         !.due = t + iv * MIN_PER_DAY]

\* A variant that assigns the new scheduling to the object it was handed.
sm2UpdateInPlace(c, grade, t) == sm2Update(c, grade, t)

\* The object handed to sm2Update, after the call: sm2Update spreads it into
\* a new object and assigns to that one only.
sm2UpdateArgument(c, grade, t) == c

formatInterval(days) ==
    IF days < 1 THEN "Less than a day"
    ELSE IF days = 1 THEN "1 day"
    ELSE IF days < 7 THEN "days"
    ELSE IF days < 30 THEN "weeks"
    ELSE IF days < 365 THEN "months"
    ELSE "years"

previewNextIntervals(c, t) == [g \in Grades |-> formatInterval(sm2Update(c, g, t).intervalDays)]

\* The object handed to previewNextIntervals, after its four calls of
\* sm2Update on it.
previewNextIntervalsArgument(c, t) ==
    sm2UpdateArgument(sm2UpdateArgument(sm2UpdateArgument(sm2UpdateArgument(c, 0, t), 1, t), 2, t), 3, t)

\* The fields of a card that createCard takes from its caller or sets once.
CardContents ==
    {[id |-> "c1", deckId |-> "d1", kind |-> "text", front |-> <<"q">>, back |-> <<"A", "b", "!">>,
      options |-> <<>>, correct |-> [absent |-> TRUE],
      canonicalAnswers |-> << << <<"a", "b">> >> >>, acceptedRegex |-> << << <<"b", "a">> >> >>,
      tags |-> << << <<"x">> >> >>, createdAt |-> 0],
     [id |-> "c2", deckId |-> "d2", kind |-> "mcq-single", front |-> <<"q">>, back |-> <<"b">>,
      options |-> << << <<"a">>, <<"b">> >> >>, correct |-> [index |-> 1],
      canonicalAnswers |-> <<>>, acceptedRegex |-> <<>>, tags |-> <<>>, createdAt |-> 0]}

\* createCard / initializeCard: the scheduling fields of a new card.
NewSchedule(t) ==
    [due |-> t, intervalDays |-> 0, ease |-> DEFAULT_EASE, repetitions |-> 0,
     lapses |-> 0, updatedAt |-> t]

(***************************************************************************)
(* Strings are sequences of one-character strings.                         *)
(***************************************************************************)
RECURSIVE SeqsUpTo(_, _)
SeqsUpTo(S, n) ==
    IF n = 0 THEN {<<>>}
    ELSE LET shorter == SeqsUpTo(S, n - 1)
         IN  shorter \cup {Append(q, x) : q \in {r \in shorter : Len(r) = n - 1}, x \in S}

IsWhitespace(ch) == ch \in {" ", "\t", "\n"}

\* String.prototype.toLowerCase, on the letters the model uses.
LowerChar(ch) ==
    CASE ch = "A" -> "a" [] ch = "B" -> "b" [] ch = "D" -> "d" [] ch = "E" -> "e"
      [] ch = "F" -> "f" [] ch = "I" -> "i" [] ch = "M" -> "m" [] ch = "N" -> "n"
      [] ch = "O" -> "o" [] ch = "R" -> "r" [] ch = "T" -> "t" [] ch = "P" -> "p"
      [] ch = "S" -> "s"
      [] OTHER -> ch

toLowerCase(str) == [i \in 1..Len(str) |-> LowerChar(str[i])]

\* String.prototype.normalize('NFKC'): the full-width letter a is the only
\* character of the model that has a compatibility decomposition.
NFKCChar(ch) == IF ch = "fullwidth-a" THEN "a" ELSE ch

NFKC(str) == [i \in 1..Len(str) |-> NFKCChar(str[i])]

\* char.replace(/[.*+?^${}()|[\]\\]/g, '\\$&'): a backslash before a character
\* that is special in a regular expression.
RegexSpecials == {".", "*", "+", "?", "^", "$", "{", "}", "(", ")", "|", "[", "]", "\\"}

escapeRegExp(ch) == IF ch \in RegexSpecials THEN <<"\\", ch>> ELSE <<ch>>

\* new RegExp(pattern) on the character x, for the patterns escapeRegExp
\* produces: an escaped character and an ordinary character match
\* themselves, a bare dot matches every character but a line break.
CharPatternMatches(pattern, x) ==
    IF Len(pattern) = 2 THEN x = pattern[2]
    ELSE IF pattern[1] = "." THEN x # "\n"
    ELSE x = pattern[1]

\* normalized.replace(new RegExp(escaped, 'g'), '')
RemoveChar(str, ch) == SelectSeq(str, LAMBDA x : ~CharPatternMatches(escapeRegExp(ch), x))

RECURSIVE RemoveAll(_, _)
RemoveAll(str, elim) ==
    IF elim = <<>> THEN str
    ELSE RemoveAll(RemoveChar(str, Head(elim)), Tail(elim))

\* str.replace(/\s+/g, ' '): every maximal run of whitespace becomes one space.
RECURSIVE CollapseWhitespace(_)
CollapseWhitespace(str) ==
    IF str = <<>> THEN <<>>
    ELSE IF IsWhitespace(Head(str))
      THEN IF Len(str) > 1 /\ IsWhitespace(str[2])
             THEN CollapseWhitespace(Tail(str))
             ELSE <<" ">> \o CollapseWhitespace(Tail(str))
      ELSE <<Head(str)>> \o CollapseWhitespace(Tail(str))

RECURSIVE TrimStart(_)
TrimStart(str) ==
    IF str # <<>> /\ IsWhitespace(Head(str)) THEN TrimStart(Tail(str)) ELSE str

RECURSIVE TrimEnd(_)
TrimEnd(str) ==
    IF str # <<>> /\ IsWhitespace(str[Len(str)])
      THEN TrimEnd(SubSeq(str, 1, Len(str) - 1))
      ELSE str

trim(str) == TrimEnd(TrimStart(str))

startsWith(str, prefix) ==
    Len(str) >= Len(prefix) /\ SubSeq(str, 1, Len(prefix)) = prefix

\* Variant that skips the removal of eliminateChars.
normalizeTextKeepChars(text, eliminateChars, lowercase) ==
    LET n1 == NFKC(text)
        n2 == IF lowercase THEN toLowerCase(n1) ELSE n1
    IN  trim(CollapseWhitespace(n2))

\* common/parser.ts normalizeText
normalizeText(text, eliminateChars, lowercase) ==
    LET n1 == NFKC(text)
        n2 == IF lowercase THEN toLowerCase(n1) ELSE n1
        n3 == RemoveAll(n2, eliminateChars)
    IN  trim(CollapseWhitespace(n3))

(***************************************************************************)
(* common/fuzzy.ts                                                         *)
(***************************************************************************)
Min3(x, y, z) == Min(x, Min(y, z))

\* The inner loop over i = 1..m: currRow[i] from prevRow and currRow[i-1].
\* Rows are sequences of length m + 1 (row[i + 1] is the source's row[i]).
RECURSIVE LevFillRow(_, _, _, _, _)
LevFillRow(a, bj, prevRow, currRow, i) ==
    IF i > Len(a) THEN currRow
    ELSE LET cost == IF a[i] = bj THEN 0 ELSE 1
             v == Min3(prevRow[i + 1] + 1, currRow[i] + 1, prevRow[i] + cost)
         IN  LevFillRow(a, bj, prevRow, Append(currRow, v), i + 1)

\* The outer loop over j = 1..n, swapping the rows after each column of b.
RECURSIVE LevRows(_, _, _, _)
LevRows(a, b, prevRow, j) ==
    IF j > Len(b) THEN prevRow
    ELSE LevRows(a, b, LevFillRow(a, b[j], prevRow, <<j>>, 1), j + 1)

\* A variant that returns currRow[m], the row from before the last swap.
levenshteinDistanceStaleRow(x, y) ==
    LET a == IF Len(x) > Len(y) THEN y ELSE x
        b == IF Len(x) > Len(y) THEN x ELSE y
        m == Len(a)
        n == Len(b)
    IN  IF m = 0 THEN n
        ELSE IF n = 0 THEN m
        ELSE LevRows(a, SubSeq(b, 1, n - 1), [i \in 1..(m + 1) |-> i - 1], 1)[m + 1]

levenshteinDistance(x, y) ==
    LET a == IF Len(x) > Len(y) THEN y ELSE x
        b == IF Len(x) > Len(y) THEN x ELSE y
        m == Len(a)
        n == Len(b)
    IN  IF m = 0 THEN n
        ELSE IF n = 0 THEN m
        ELSE LevRows(a, b, [i \in 1..(m + 1) |-> i - 1], 1)[m + 1]

\* A variant that divides by the length of the shorter string.
similarityByMinLength(a, b) ==
    IF a = b THEN <<1, 1>>
    ELSE IF Len(a) = 0 /\ Len(b) = 0 THEN <<1, 1>>
    ELSE IF Len(a) = 0 \/ Len(b) = 0 THEN <<0, 1>>
    ELSE LET minLength == Min(Len(a), Len(b))
         IN  <<minLength - levenshteinDistance(a, b), minLength>>

\* Scores are exact fractions <<numerator, denominator>>.
similarity(a, b) ==
    IF a = b THEN <<1, 1>>
    ELSE IF Len(a) = 0 /\ Len(b) = 0 THEN <<1, 1>>
    ELSE IF Len(a) = 0 \/ Len(b) = 0 THEN <<0, 1>>
    ELSE LET maxLength == Max(Len(a), Len(b))
         IN  <<maxLength - levenshteinDistance(a, b), maxLength>>

\* score >= t, t in hundredths.
ScoreGE(score, t) == score[1] * 100 >= t * score[2]

\* s1 > s2 on two scores.
ScoreGT(s1, s2) == s1[1] * s2[2] > s2[1] * s1[2]

\* The loop of findBestMatch from index i (1-based) on; the index it
\* reports is 0-based.
RECURSIVE FindBestFrom(_, _, _, _)
FindBestFrom(input, candidates, i, best) ==
    IF i > Len(candidates) THEN best
    ELSE LET score == similarity(input, candidates[i])
         IN  FindBestFrom(input, candidates, i + 1,
                          IF ScoreGT(score, best.score)
                            THEN [match |-> <<candidates[i]>>, score |-> score, index |-> i - 1]
                            ELSE best)

\* match is <<>> for null.
findBestMatch(input, candidates) ==
    IF Len(candidates) = 0 THEN [match |-> <<>>, score |-> <<0, 1>>, index |-> -1]
    ELSE FindBestFrom(input, candidates, 1, [match |-> <<>>, score |-> <<0, 1>>, index |-> -1])

\* Math.max on two scores.
ScoreMax(s1, s2) == IF s1[1] * s2[2] >= s2[1] * s1[2] THEN s1 ELSE s2

(***************************************************************************)
(* common/grading.ts                                                       *)
(*                                                                         *)
(* An optional field is a sequence of length at most one: <<>> is          *)
(* undefined, <<v>> is the value v.  A grader returns [ok |-> TRUE,        *)
(* grade |-> g], or [ok |-> FALSE] when an exception propagates.           *)
(***************************************************************************)
Returns(g) == [ok |-> TRUE, grade |-> g]
Throws == [ok |-> FALSE]

Contains(str, sub) ==
    \E i \in 0..(Len(str) - Len(sub)) : SubSeq(str, i + 1, i + Len(sub)) = sub

\* new RegExp(pattern, 'i').test(str).  A pattern of the model is either
\* malformed (the constructor throws a SyntaxError) or a literal, which
\* matches the strings that contain it, case-insensitively.
RegExpTest(pattern, str) ==
    IF ~pattern.valid THEN "throw"
    ELSE IF Contains(toLowerCase(str), toLowerCase(pattern.literal)) THEN "match"
    ELSE "nomatch"

\* card.correct and the user answer are union types in the source: a
\* number is [index |-> n], a number[] is [indices |-> <<...>>] and a string
\* is [text |-> <<...>>].
gradeMcqSingle(c, selectedIndex) ==
    Returns(IF selectedIndex = c.correct.index THEN 3 ELSE 0)

CountIf(seq, Test(_)) == Len(SelectSeq(seq, Test))

InSeq(x, seq) == \E i \in 1..Len(seq) : seq[i] = x

\* score >= t for score = tp / (tp + 0.5 * (fp + fn)), t in tenths.
F1GE(tp, fp, fn, t) == 20 * tp >= t * (2 * tp + fp + fn)

\* Variant without the early return on an empty list of correct indices.
gradeMcqMultiNoEarlyReturn(c, selectedIndices) ==
    LET correctIndices == c.correct.indices
        truePositives  == CountIf(selectedIndices, LAMBDA idx : InSeq(idx, correctIndices))
        falseNegatives == CountIf(correctIndices, LAMBDA idx : ~InSeq(idx, selectedIndices))
        falsePositives == CountIf(selectedIndices, LAMBDA idx : ~InSeq(idx, correctIndices))
        total == truePositives + falsePositives + falseNegatives
    IN  IF total = 0 THEN Returns(3)
        ELSE IF F1GE(truePositives, falsePositives, falseNegatives, 9) THEN Returns(3)
        ELSE IF F1GE(truePositives, falsePositives, falseNegatives, 6) THEN Returns(2)
        ELSE IF F1GE(truePositives, falsePositives, falseNegatives, 2) THEN Returns(1)
        ELSE Returns(0)

gradeMcqMulti(c, selectedIndices) ==
    LET correctIndices == c.correct.indices
        truePositives  == CountIf(selectedIndices, LAMBDA idx : InSeq(idx, correctIndices))
        falseNegatives == CountIf(correctIndices, LAMBDA idx : ~InSeq(idx, selectedIndices))
        falsePositives == CountIf(selectedIndices, LAMBDA idx : ~InSeq(idx, correctIndices))
        total == truePositives + falsePositives + falseNegatives
    IN  IF Len(correctIndices) = 0 THEN Returns(0)
        ELSE IF total = 0 THEN Returns(3)
        ELSE IF F1GE(truePositives, falsePositives, falseNegatives, 9) THEN Returns(3)
        ELSE IF F1GE(truePositives, falsePositives, falseNegatives, 6) THEN Returns(2)
        ELSE IF F1GE(truePositives, falsePositives, falseNegatives, 2) THEN Returns(1)
        ELSE Returns(0)

isSingleTermAnswer(answer) ==
    Len(trim(answer)) > 0 /\ \A i \in 1..Len(trim(answer)) : ~IsWhitespace(trim(answer)[i])

DefinitionPrefix == <<"d", "e", "f", "i", "n", "i", "t", "i", "o", "n", ":">>
TermTag == <<"t", "e", "r", "m">>

isStrictDefinitionCard(c) ==
    LET isDefinitionPrompt == startsWith(toLowerCase(trim(c.front)), DefinitionPrefix)
        tags == IF c.tags = <<>> THEN <<>> ELSE c.tags[1]
        hasTermTag == \E i \in 1..Len(tags) : toLowerCase(tags[i]) = TermTag
    IN  isDefinitionPrompt \/ hasTermTag

RECURSIVE BestScore(_, _, _)
BestScore(input, answers, best) ==
    IF answers = <<>> THEN best
    ELSE BestScore(input, Tail(answers), ScoreMax(best, similarity(input, Head(answers))))

ThresholdGrade(score, thresholds) ==
    IF ScoreGE(score, thresholds.high) THEN 3
    ELSE IF ScoreGE(score, thresholds.medium) THEN 2
    ELSE IF ScoreGE(score, thresholds.low) THEN 1
    ELSE 0

\* Variant without the strict-definition check.
FuzzyTextGradeNoStrict(c, canonicalAnswers, normalizedInput, st) ==
    LET bestScore == BestScore(normalizedInput, canonicalAnswers, <<0, 1>>)
        isSingleTermCard ==
            \A i \in 1..Len(canonicalAnswers) : isSingleTermAnswer(canonicalAnswers[i])
    IN  IF isSingleTermCard
          THEN (IF ScoreGE(bestScore, st.fuzzyThresholds.low) THEN 1 ELSE 0)
        ELSE ThresholdGrade(bestScore, st.fuzzyThresholds)

\* Variant without the single-term branch.
FuzzyTextGradeNoSingleTerm(c, canonicalAnswers, normalizedInput, st) ==
    LET bestScore == BestScore(normalizedInput, canonicalAnswers, <<0, 1>>)
    IN  IF isStrictDefinitionCard(c) THEN 0
        ELSE ThresholdGrade(bestScore, st.fuzzyThresholds)

\* The part of gradeText after the regex check.
FuzzyTextGrade(c, canonicalAnswers, normalizedInput, st) ==
    LET bestScore == BestScore(normalizedInput, canonicalAnswers, <<0, 1>>)
        isSingleTermCard ==
            \A i \in 1..Len(canonicalAnswers) : isSingleTermAnswer(canonicalAnswers[i])
    IN  IF isStrictDefinitionCard(c) THEN 0
        ELSE IF isSingleTermCard
          THEN (IF ScoreGE(bestScore, st.fuzzyThresholds.low) THEN 1 ELSE 0)
        ELSE ThresholdGrade(bestScore, st.fuzzyThresholds)

\* Variant without the try/catch around the regular expression.
gradeTextNoCatch(c, userAnswer, st) ==
    LET normalizedInput == normalizeText(userAnswer, st.eliminateChars, st.lowercaseNormalization)
        canonicalAnswers ==
            IF c.canonicalAnswers # <<>> THEN c.canonicalAnswers[1]
            ELSE <<normalizeText(c.back, st.eliminateChars, st.lowercaseNormalization)>>
        exact == InSeq(normalizedInput, canonicalAnswers)
        hasRegex == c.acceptedRegex # <<>> /\ c.acceptedRegex[1].literal # <<>>
        onRaw == RegExpTest(c.acceptedRegex[1], userAnswer)
        onNorm == RegExpTest(c.acceptedRegex[1], normalizedInput)
    IN  IF exact THEN Returns(3)
        ELSE IF hasRegex /\ onRaw = "throw" THEN Throws
        ELSE IF hasRegex /\ (onRaw = "match" \/ onNorm = "match") THEN Returns(3)
        ELSE Returns(FuzzyTextGrade(c, canonicalAnswers, normalizedInput, st))

gradeText(c, userAnswer, st) ==
    LET normalizedInput == normalizeText(userAnswer, st.eliminateChars, st.lowercaseNormalization)
        canonicalAnswers ==
            IF c.canonicalAnswers # <<>> THEN c.canonicalAnswers[1]
            ELSE <<normalizeText(c.back, st.eliminateChars, st.lowercaseNormalization)>>
        exact == InSeq(normalizedInput, canonicalAnswers)
        hasRegex == c.acceptedRegex # <<>> /\ c.acceptedRegex[1].literal # <<>>
        onRaw == RegExpTest(c.acceptedRegex[1], userAnswer)
        onNorm == RegExpTest(c.acceptedRegex[1], normalizedInput)
    IN  IF exact THEN Returns(3)
        ELSE IF hasRegex /\ onRaw # "throw" /\ (onRaw = "match" \/ onNorm = "match")
          THEN Returns(3)
        ELSE Returns(FuzzyTextGrade(c, canonicalAnswers, normalizedInput, st))

\* String.prototype.split('|')
RECURSIVE SplitFrom(_, _, _)
SplitFrom(str, current, i) ==
    IF i > Len(str) THEN <<current>>
    ELSE IF str[i] = "|" THEN <<current>> \o SplitFrom(str, <<>>, i + 1)
    ELSE SplitFrom(str, Append(current, str[i]), i + 1)

split(str) == SplitFrom(str, <<>>, 1)

\* The grade of blank i (1-based) of a cloze card.
BlankGrade(canonicalAnswers, userAnswers, i, st) ==
    LET expected == IF i <= Len(canonicalAnswers) THEN canonicalAnswers[i] ELSE <<>>
        actual == IF i <= Len(userAnswers) THEN userAnswers[i] ELSE <<>>
        normalizedActual == normalizeText(actual, st.eliminateChars, st.lowercaseNormalization)
    IN  IF normalizedActual = expected THEN 3
        ELSE ThresholdGrade(similarity(normalizedActual, expected), st.fuzzyThresholds)

RECURSIVE SumBlanks(_, _, _, _)
SumBlanks(canonicalAnswers, userAnswers, i, st) ==
    IF i = 0 THEN 0
    ELSE BlankGrade(canonicalAnswers, userAnswers, i, st)
           + SumBlanks(canonicalAnswers, userAnswers, i - 1, st)

\* Variant that averages over the card's blanks only.
gradeClozeOverBlanks(c, userAnswers, st) ==
    LET canonicalAnswers == IF c.canonicalAnswers # <<>> THEN c.canonicalAnswers[1] ELSE <<>>
        n == Len(canonicalAnswers)
        sum == SumBlanks(canonicalAnswers, userAnswers, n, st)
    IN  IF Len(canonicalAnswers) = 0 \/ Len(userAnswers) = 0 THEN Returns(0)
        ELSE IF 2 * sum >= 5 * n THEN Returns(3)
        ELSE IF 2 * sum >= 3 * n THEN Returns(2)
        ELSE IF 2 * sum >= n THEN Returns(1)
        ELSE Returns(0)

gradeCloze(c, userAnswers, st) ==
    LET canonicalAnswers == IF c.canonicalAnswers # <<>> THEN c.canonicalAnswers[1] ELSE <<>>
        n == Max(Len(canonicalAnswers), Len(userAnswers))
        sum == SumBlanks(canonicalAnswers, userAnswers, n, st)
    IN  IF Len(canonicalAnswers) = 0 \/ Len(userAnswers) = 0 THEN Returns(0)
        ELSE IF 2 * sum >= 5 * n THEN Returns(3)
        ELSE IF 2 * sum >= 3 * n THEN Returns(2)
        ELSE IF 2 * sum >= n THEN Returns(1)
        ELSE Returns(0)

gradeAnswer(c, userAnswer, st) ==
    CASE c.kind = "mcq-single" -> gradeMcqSingle(c, userAnswer.index)
      [] c.kind = "mcq-multi" -> gradeMcqMulti(c, userAnswer.indices)
      [] c.kind = "text" -> gradeText(c, userAnswer.text, st)
      [] c.kind = "cloze" -> gradeCloze(c, split(userAnswer.text), st)
      [] c.kind = "audio" -> gradeText(c, userAnswer.text, st)
      [] OTHER -> Returns(0)

(***************************************************************************)
(* content/content.ts gradeAnswerLocally: the grade the content script     *)
(* shows and sends with card_answered.  It always returns a grade.         *)
(***************************************************************************)
calculateSimpleSimilarity(a, b) == similarity(a, b)

\* matches / Math.max(correct.length, selected.length) >= t, t in tenths;
\* 0 / 0 is NaN, which is not >= anything.
MatchShareGE(matches, longest, t) == longest > 0 /\ 10 * matches >= t * longest

\* The grade of blank i (1-based) in the loop of the cloze case.
LocalBlankGrade(expected, inputs, i, st) ==
    LET normalizedInput ==
            normalizeText(IF i <= Len(inputs) THEN inputs[i] ELSE <<>>,
                          st.eliminateChars, st.lowercaseNormalization)
        normalizedExpected == expected[i]
    IN  IF normalizedInput = normalizedExpected THEN 3
        ELSE ThresholdGrade(calculateSimpleSimilarity(normalizedInput, normalizedExpected),
                            st.fuzzyThresholds)

RECURSIVE LocalTotalScore(_, _, _, _)
LocalTotalScore(expected, inputs, i, st) ==
    IF i = 0 THEN 0
    ELSE LocalBlankGrade(expected, inputs, i, st) + LocalTotalScore(expected, inputs, i - 1, st)

gradeAnswerLocally(c, userAnswer, st) ==
    CASE c.kind = "mcq-single" ->
           IF userAnswer.index = c.correct.index THEN 3 ELSE 0
      [] c.kind = "mcq-multi" ->
           LET correct == c.correct.indices
               selected == userAnswer.indices
               matches == CountIf(selected, LAMBDA idx : InSeq(idx, correct))
               longest == Max(Len(correct), Len(selected))
           IN  IF MatchShareGE(matches, longest, 9) THEN 3
               ELSE IF MatchShareGE(matches, longest, 6) THEN 2
               ELSE IF MatchShareGE(matches, longest, 2) THEN 1
               ELSE 0
      [] c.kind \in {"text", "audio"} ->
           LET normalizedInput ==
                   normalizeText(userAnswer.text, st.eliminateChars, st.lowercaseNormalization)
               canonicalAnswers ==
                   IF c.canonicalAnswers # <<>> THEN c.canonicalAnswers[1]
                   ELSE <<normalizeText(c.back, st.eliminateChars, st.lowercaseNormalization)>>
           IN  IF InSeq(normalizedInput, canonicalAnswers) THEN 3
               ELSE ThresholdGrade(BestScore(normalizedInput, canonicalAnswers, <<0, 1>>),
                                   st.fuzzyThresholds)
      [] c.kind = "cloze" ->
           LET inputs == split(userAnswer.text)
               expected == IF c.canonicalAnswers # <<>> THEN c.canonicalAnswers[1] ELSE <<>>
               n == Len(expected)
               totalScore == LocalTotalScore(expected, inputs, n, st)
           IN  IF n = 0 THEN 0
               ELSE IF 2 * totalScore >= 5 * n THEN 3
               ELSE IF 2 * totalScore >= 3 * n THEN 2
               ELSE IF 2 * totalScore >= n THEN 1
               ELSE 0
      [] OTHER -> 0

(***************************************************************************)
(* Scheduler harness: one card, any sequence of reviews, the clock.        *)
(***************************************************************************)
\* Prior card states for the claims quantified over every card: the values
\* the scheduler tests construct (ease 0.5, 1.4, 3.4; interval 30, 300)
\* and values around the clamps.
PriorEases == {50, 140, 250, 340, 400}
PriorIntervals == {0, 1, 6, 10, 30, 300}
PriorReps == {0, 1, 2, 5}
PriorLapses == {0, 1}

\* DEFAULT_SETTINGS, the fields the handlers read.
DEFAULT_SETTINGS == [activeDeckId |-> None, domainEnabled |-> TRUE]

\* getStats' default value; all of the model's time lies within one day,
\* so dailyStats holds at most the entry of today.
EmptyStats ==
    [totalReviews |-> 0, reviewHistory |-> <<>>, todayReviews |-> 0,
     todayCorrect |-> 0, todayIncorrect |-> 0]

IdleGrade == [card |-> [kind |-> None]]

IdleFuzzy ==
    /\ fin = [a |-> <<>>, b |-> <<>>, c |-> <<>>]
    /\ fout = [done |-> FALSE]

\* The content script with no quiz on screen: isQuizActive and isRetryMode as
\* declared, no controls, no answer typed (<<>>), no handleSubmit waiting for the
\* background; sent counts the card_answered messages of the presentation.
IdleQuiz ==
    [isQuizActive |-> FALSE, isRetryMode |-> FALSE, inputsDisabled |-> FALSE,
     actions |-> None, answer |-> <<>>, awaiting |-> <<>>, sent |-> 0]

IdleSys ==
    /\ cards = <<>>
    /\ decks = <<>>
    /\ settings = DEFAULT_SETTINGS
    /\ snoozed = <<>>
    /\ stats = EmptyStats
    /\ paused = <<>>
    /\ currentCard = <<>>
    /\ quiz = IdleQuiz
    /\ response = [type |-> None]
    /\ inflight = <<>>
    /\ IdleFuzzy

InitNewCard ==
    /\ now = 0
    /\ \E content \in CardContents : card = content @@ NewSchedule(0)
    /\ upd = [done |-> FALSE]
    /\ gin = IdleGrade
    /\ gout = [done |-> FALSE]
    /\ IdleSys

InitAnyCard ==
    /\ now = 0
    /\ \E content \in CardContents,
          schedule \in [due : {0}, intervalDays : PriorIntervals, ease : PriorEases,
                        repetitions : PriorReps, lapses : PriorLapses, updatedAt : {0}] :
          card = content @@ schedule
    /\ upd = [done |-> FALSE]
    /\ gin = IdleGrade
    /\ gout = [done |-> FALSE]
    /\ IdleSys

Review(g) ==
    /\ g = 0 => card.lapses < MaxLapses
    /\ g > 0 => card.repetitions < MaxReps
    /\ card' = sm2Update(card, g, now)
    /\ upd' = [done |-> TRUE, card |-> card, grade |-> g, now |-> now,
               preview |-> previewNextIntervals(card, now),
               argument |-> sm2UpdateArgument(card, g, now),
               previewed |-> previewNextIntervalsArgument(card, now)]
    /\ UNCHANGED <<now, gradeVars, fuzzyVars, sysVars>>

Tick ==
    /\ now + TickMinutes <= MaxNow
    /\ now' = now + TickMinutes
    /\ UNCHANGED <<schedVars, gradeVars, fuzzyVars, sysVars>>

NextSched ==
    \/ \E g \in Grades : Review(g)
    \/ Tick

SpecNewCard == InitNewCard /\ [][NextSched]_vars

SpecAnyCard == InitAnyCard /\ [][NextSched]_vars

(***************************************************************************)
(* Grader harness: gradeAnswer applied to one (card, answer, settings).    *)
(***************************************************************************)
DEFAULT_THRESHOLDS == [exact |-> 100, high |-> 95, medium |-> 85, low |-> 70]
LenientThresholds == [exact |-> 100, high |-> 60, medium |-> 50, low |-> 30]

DefaultGradeSettings ==
    [eliminateChars |-> <<"!">>, lowercaseNormalization |-> TRUE, fuzzyThresholds |-> DEFAULT_THRESHOLDS]

GradeSettings ==
    { DefaultGradeSettings,
      [eliminateChars |-> <<"!">>, lowercaseNormalization |-> TRUE, fuzzyThresholds |-> LenientThresholds],
      [eliminateChars |-> <<>>, lowercaseNormalization |-> FALSE, fuzzyThresholds |-> LenientThresholds] }

\* What the user can type: every short string over a, b and space, and
\* some strings with capitals, punctuation and the cloze separator.
UserAnswers ==
    SeqsUpTo({"a", "b", " "}, MaxStrLen)
      \cup { <<"A", "B", "!">>, <<"A">>, <<"a", "!">>, <<"|">>, <<"a", "|", "b">>,
             <<"a", "|">>, <<"a", "b", "|", "a", " ", "b">>, <<"a", "|", "b", "|", "a">>,
             <<"a", "b", "b", "a">>, <<"a", "b", " ", "a", "b", "b">>,
             <<"a", "b", "b">>, <<"b", "a", "b">>, <<"a", " ", "b">>, <<" ", "a", "b">>,
             <<"a", "b", " ">>, <<"b", "b", "a">>, <<"p", "a", "r", "i", "z">>,
             <<"P", "A", "R", "I", "S", "!">>, <<"!">> }

\* A text card; the other text and audio cards differ from it in one field.
BaseTextCard ==
    [kind |-> "text", front |-> <<"q">>, back |-> <<"A", "b", "!">>,
     canonicalAnswers |-> << << <<"a", "b">> >> >>, acceptedRegex |-> <<>>, tags |-> <<>>,
     correct |-> [absent |-> TRUE]]

TextCards ==
    { BaseTextCard,
      [BaseTextCard EXCEPT !.kind = "audio"],
      [BaseTextCard EXCEPT !.canonicalAnswers = <<>>],
      [BaseTextCard EXCEPT !.canonicalAnswers = <<>>, !.back = <<>>],
      [BaseTextCard EXCEPT !.canonicalAnswers = << <<>> >>, !.back = <<>>],
      [BaseTextCard EXCEPT !.canonicalAnswers = << << <<"a", "b">>, <<"b", "a", "b">> >> >>],
      [BaseTextCard EXCEPT !.canonicalAnswers = << << <<"a", "b", " ", "a", "b">> >> >>],
      [BaseTextCard EXCEPT !.canonicalAnswers = << << <<"a", "b", "b">>, <<"a", " ", "b", "a">> >> >>],
      [BaseTextCard EXCEPT !.acceptedRegex = << [valid |-> TRUE, literal |-> <<"b", "a">>] >>],
      [BaseTextCard EXCEPT !.acceptedRegex = << [valid |-> FALSE, literal |-> <<"[">>] >>],
      [BaseTextCard EXCEPT !.acceptedRegex = << [valid |-> TRUE, literal |-> <<>>] >>],
      [BaseTextCard EXCEPT !.front = <<" ", "D", "e", "f", "i", "n", "i", "t", "i", "o", "n", ":", "q">>],
      [BaseTextCard EXCEPT !.front = <<"q", "d", "e", "f", "i", "n", "i", "t", "i", "o", "n", ":">>,
                           !.canonicalAnswers = << << <<"a", "b", " ", "a", "b">> >> >>],
      [BaseTextCard EXCEPT !.tags = << << <<"T", "e", "r", "m">> >> >>,
                           !.canonicalAnswers = << << <<"a", "b", " ", "a", "b">> >> >>],
      [BaseTextCard EXCEPT !.tags = << << <<"t", "e", "r", "m", "s">> >> >>],
      [BaseTextCard EXCEPT !.kind = "audio", !.tags = << << <<"x">>, <<"t", "E", "R", "M">> >> >>,
                           !.canonicalAnswers = << << <<"a", "b", " ", "a", "b">>, <<"a", "b">> >> >>],
      [BaseTextCard EXCEPT !.front = <<"D", "E", "F", "I", "N", "I", "T", "I", "O", "N", ":">>,
                           !.acceptedRegex = << [valid |-> TRUE, literal |-> <<"b", "a">>] >>],
      [BaseTextCard EXCEPT !.canonicalAnswers = << << <<"p", "a", "r", "i", "s">> >> >>] }

ClozeCanonicals ==
    { <<>>, << <<>> >>, << << <<"a">> >> >>, << << <<"a">>, <<"b">> >> >>,
      << << <<"a", "b">>, <<"a", " ", "b">> >> >>, << << <<"a", "b", "b">>, <<"b">>, <<"a">> >> >> }

ClozeCards ==
    { [kind |-> "cloze", front |-> <<"q">>, back |-> <<"a">>, canonicalAnswers |-> ca,
       acceptedRegex |-> <<>>, tags |-> <<>>, correct |-> [absent |-> TRUE]] : ca \in ClozeCanonicals }

OptionIndices == {0, 1, 2}

IndexLists == SeqsUpTo(OptionIndices, MaxSel)

McqCard(kind, correct) ==
    [kind |-> kind, front |-> <<"q">>, back |-> <<"a">>, canonicalAnswers |-> <<>>,
     acceptedRegex |-> <<>>, tags |-> <<>>, correct |-> correct]

GradeInputs ==
    {[card |-> McqCard("mcq-single", [index |-> c]), answer |-> [index |-> a], settings |-> DefaultGradeSettings] :
        c \in OptionIndices, a \in OptionIndices}
    \cup
    {[card |-> McqCard("mcq-multi", [indices |-> c]), answer |-> [indices |-> a], settings |-> DefaultGradeSettings] :
        c \in IndexLists, a \in IndexLists}
    \cup
    {[card |-> c, answer |-> [text |-> a], settings |-> st] :
        c \in TextCards \cup ClozeCards, a \in UserAnswers, st \in GradeSettings}
    \cup
    {[card |-> [BaseTextCard EXCEPT !.kind = "image"], answer |-> [text |-> a], settings |-> st] :
        a \in UserAnswers, st \in GradeSettings}

IdleSched ==
    /\ card = NewSchedule(0)
    /\ upd = [done |-> FALSE]

InitGrade ==
    /\ now = 0
    /\ IdleSched
    /\ gin \in GradeInputs
    /\ gout = [done |-> FALSE]
    /\ IdleSys

\* One call of gradeAnswer.
Grade ==
    /\ ~gout.done
    /\ gout' = [done |-> TRUE, result |-> gradeAnswer(gin.card, gin.answer, gin.settings),
                 local |-> gradeAnswerLocally(gin.card, gin.answer, gin.settings)]
    /\ UNCHANGED <<now, gin, schedVars, fuzzyVars, sysVars>>

NextGrade == Grade

SpecGrade == InitGrade /\ [][NextGrade]_vars

(***************************************************************************)
(* common/storage.ts and background/index.ts: the message handlers over    *)
(* chrome.storage.  Each handler runs to completion.                       *)
(***************************************************************************)
DUE_LIMIT == 100
HISTORY_LIMIT == 1000
SNOOZE_MINUTES == 10
PAUSE_MINUTES == 30

Domain == "facebook.com"

\* createCard: a card of deck d created at time t.
createCard(id, d, t) ==
    [id |-> id, deckId |-> d, due |-> t, intervalDays |-> 0, ease |-> DEFAULT_EASE,
     repetitions |-> 0, lapses |-> 0, updatedAt |-> t]

\* The comparator of sortCardsForReview returns a negative number.
ReviewBefore(a, b, t) ==
    LET aIsNew == a.repetitions = 0
        bIsNew == b.repetitions = 0
    IN  IF aIsNew /\ ~bIsNew THEN TRUE
        ELSE IF ~aIsNew /\ bIsNew THEN FALSE
        ELSE (t - b.due) - (t - a.due) < 0

\* The comparator of getDueCards returns a negative number.
DueBefore(a, b) == a.due - b.due < 0

CardBefore(order, a, b, t) ==
    IF order = "review" THEN ReviewBefore(a, b, t) ELSE DueBefore(a, b)

\* Array.prototype.sort is stable, so with these comparators the result is
\* determined: an element comes after the elements that precede it in the
\* order and after the earlier elements that tie with it.
SortRank(seq, order, t, i) ==
    Cardinality({j \in 1..Len(seq) : CardBefore(order, seq[j], seq[i], t)})
      + Cardinality({j \in 1..(i - 1) : ~CardBefore(order, seq[i], seq[j], t)
                                          /\ ~CardBefore(order, seq[j], seq[i], t)})
      + 1

StableSort(seq, order, t) ==
    LET ranked == {<<SortRank(seq, order, t, i), i>> : i \in 1..Len(seq)}
    IN  [k \in 1..Len(seq) |-> seq[(CHOOSE p \in ranked : p[1] = k)[2]]]

sortCardsForReview(list, t) == StableSort(list, "review", t)

\* The array handed to sortCardsForReview, after the call: the sort is
\* applied to a copy, [...cards].
sortCardsForReviewArgument(list, t) == list

getDueCards(limit, t) ==
    LET due == SelectSeq(cards, LAMBDA c : c.due <= t)
        sorted == StableSort(due, "due", t)
    IN  SubSeq(sorted, 1, Min(limit, Len(sorted)))

getSnoozedCards(t) == SelectSeq(snoozed, LAMBDA e : e.until > t)

isCardSnoozed(cardId, t) ==
    \E i \in 1..Len(getSnoozedCards(t)) : getSnoozedCards(t)[i].cardId = cardId

getPausedSites(t) == SelectSeq(paused, LAMBDA e : e.until > t)

isSitePaused(domain, t) ==
    \E i \in 1..Len(getPausedSites(t)) : getPausedSites(t)[i].domain = domain

\* The loop of handleGetNextCard: the first card of the list that is not snoozed.
FirstNotSnoozed(sorted, t) ==
    LET free == SelectSeq(sorted, LAMBDA c : ~isCardSnoozed(c.id, t))
    IN  IF free = <<>> THEN <<>> ELSE <<Head(free)>>

\* Variant that serves the head of the review order without the snooze check.
NextCardIgnoringSnooze(t) ==
    LET dueCards == getDueCards(DUE_LIMIT, t)
    IN  IF Len(dueCards) = 0 THEN <<>> ELSE <<Head(sortCardsForReview(dueCards, t))>>

\* What handleGetNextCard serves at time t, once the site is neither paused
\* nor disabled: <<>> is null.
NextCard(t) ==
    LET dueCards == getDueCards(DUE_LIMIT, t)
    IN  IF Len(dueCards) = 0 THEN <<>>
        ELSE FirstNotSnoozed(sortCardsForReview(dueCards, t), t)

handleGetNextCard ==
    /\ response' =
          IF isSitePaused(Domain, now) \/ ~settings.domainEnabled
            THEN [type |-> "get_next_card_for_domain", ok |-> TRUE, data |-> <<>>]
            ELSE [type |-> "get_next_card_for_domain", ok |-> TRUE, data |-> NextCard(now)]
    /\ UNCHANGED <<now, schedVars, gradeVars, fuzzyVars, inflight, cards, decks, settings, snoozed, stats, paused>>

CardIndex(cardId) == {i \in 1..Len(cards) : cards[i].id = cardId}

\* recordReview, on the stats object it read from storage.
recordReview(read, record) ==
    LET history == Append(read.reviewHistory, record)
    IN  [read EXCEPT
           !.reviewHistory = IF Len(history) > HISTORY_LIMIT
                               THEN SubSeq(history, Len(history) - HISTORY_LIMIT + 1, Len(history))
                               ELSE history,
           !.totalReviews = read.totalReviews + 1,
           !.todayReviews = read.todayReviews + 1,
           !.todayCorrect = IF record.grade >= 2 THEN read.todayCorrect + 1 ELSE read.todayCorrect,
           !.todayIncorrect = IF record.grade >= 2 THEN read.todayIncorrect ELSE read.todayIncorrect + 1]

\* recordReview with no other handler between its read and its write.
RecordedStats(record) == recordReview(stats, record)

handleCardAnswered(cardId, grade, responseTimeMs) ==
    /\ stats.todayReviews < MaxReviews
    /\ IF CardIndex(cardId) = {}
         THEN /\ response' = [type |-> "card_answered", ok |-> FALSE, error |-> "Card not found"]
              /\ UNCHANGED <<cards, stats>>
         ELSE LET i == CHOOSE k \in CardIndex(cardId) : \A j \in CardIndex(cardId) : k <= j
                  updatedCard == sm2Update(cards[i], grade, now)
              IN  /\ cards' = [cards EXCEPT ![i] = updatedCard]
                  /\ stats' = RecordedStats([cardId |-> cardId, deckId |-> cards[i].deckId,
                                              timestamp |-> now, grade |-> grade,
                                              responseTimeMs |-> responseTimeMs])
                  /\ response' = [type |-> "card_answered", ok |-> TRUE]
    /\ UNCHANGED <<now, schedVars, gradeVars, fuzzyVars, inflight, decks, settings, snoozed, paused>>

\* A variant that writes the new snooze alone.
handleSkipCardAlone(cardId, snoozeMinutes) ==
    /\ snoozed' = <<[cardId |-> cardId, until |-> now + snoozeMinutes]>>
    /\ response' = [type |-> "skip_card", ok |-> TRUE]
    /\ UNCHANGED <<now, schedVars, gradeVars, fuzzyVars, inflight, cards, decks, settings, stats, paused>>

\* snoozeCard
handleSkipCard(cardId, snoozeMinutes) ==
    LET live == getSnoozedCards(now)
        until == now + snoozeMinutes
        hit == {i \in 1..Len(live) : live[i].cardId = cardId}
    IN  /\ snoozed' = IF hit # {}
                        THEN [i \in 1..Len(live) |->
                                IF i = CHOOSE k \in hit : \A j \in hit : k <= j
                                  THEN [live[i] EXCEPT !.until = until] ELSE live[i]]
                        ELSE Append(live, [cardId |-> cardId, until |-> until])
        /\ response' = [type |-> "skip_card", ok |-> TRUE]
        /\ UNCHANGED <<now, schedVars, gradeVars, fuzzyVars, inflight, cards, decks, settings, stats, paused>>

\* saveSettings merges the partial settings of the message into the stored ones.
handleSetSettings(partial) ==
    /\ settings' = [f \in DOMAIN settings |->
                      IF f \in DOMAIN partial THEN partial[f] ELSE settings[f]]
    /\ response' = [type |-> "set_settings", ok |-> TRUE]
    /\ UNCHANGED <<now, schedVars, gradeVars, fuzzyVars, inflight, cards, decks, snoozed, stats, paused>>

\* pauseSite
handlePauseSite(domain, minutes) ==
    LET live == getPausedSites(now)
        until == now + minutes
    IN  /\ paused' = IF \E i \in 1..Len(live) : live[i].domain = domain
                       THEN [i \in 1..Len(live) |->
                               IF live[i].domain = domain
                                 THEN [live[i] EXCEPT !.until = until] ELSE live[i]]
                       ELSE Append(live, [domain |-> domain, until |-> until])
        /\ response' = [type |-> "pause_site", ok |-> TRUE]
        /\ UNCHANGED <<now, schedVars, gradeVars, fuzzyVars, inflight, cards, decks, settings, snoozed, stats>>

(***************************************************************************)
(* The extension with two decks and three imported cards.                  *)
(***************************************************************************)
DeckIds == {"d1", "d2"}
CardIds == {"c1", "c2", "c3"}

Init ==
    /\ now = 0
    /\ IdleSched
    /\ gin = IdleGrade
    /\ gout = [done |-> FALSE]
    /\ decks = <<"d1", "d2">>
    /\ cards = <<createCard("c1", "d1", 0), createCard("c2", "d2", 0), createCard("c3", "d1", 0)>>
    /\ settings = DEFAULT_SETTINGS
    /\ snoozed = <<>>
    /\ stats = EmptyStats
    /\ paused = <<>>
    /\ currentCard = <<>>
    /\ quiz = IdleQuiz
    /\ response = [type |-> None]
    /\ inflight = <<>>
    /\ IdleFuzzy

(***************************************************************************)
(* content/content.ts: the messages the content script sends.  showQuiz    *)
(* and loadNextCard request a card when no unanswered quiz is on screen;   *)
(* handleSubmit and handleSkip send card_answered and skip_card for the    *)
(* card on screen.                                                         *)
(***************************************************************************)
showQuiz ==
    /\ currentCard = <<>>
    /\ handleGetNextCard
    /\ currentCard' = IF response'.data = <<>> THEN <<>> ELSE <<response'.data[1].id>>
    /\ UNCHANGED quiz

handleSubmit(grade) ==
    /\ currentCard # <<>>
    /\ handleCardAnswered(currentCard[1], grade, 1)
    /\ currentCard' = <<>>
    /\ UNCHANGED quiz

handleSkip ==
    /\ currentCard # <<>>
    /\ handleSkipCard(currentCard[1], SNOOZE_MINUTES)
    /\ currentCard' = <<>>
    /\ UNCHANGED quiz

\* The Pause 30m button of the quiz.
handlePause ==
    /\ currentCard # <<>>
    /\ handlePauseSite(Domain, PAUSE_MINUTES)
    /\ currentCard' = <<>>
    /\ UNCHANGED quiz

\* The settings page of the dashboard: the active deck selector.
updateSetting(d) ==
    /\ handleSetSettings([activeDeckId |-> d])
    /\ UNCHANGED <<currentCard, quiz>>

\* The popup: enable or disable quizzes on the site.
toggleSite ==
    /\ handleSetSettings([domainEnabled |-> ~settings.domainEnabled])
    /\ UNCHANGED <<currentCard, quiz>>

Next ==
    \/ showQuiz
    \/ \E g \in Grades : handleSubmit(g)
    \/ handleSkip
    \/ handlePause
    \/ \E d \in DeckIds \cup {None} : updateSetting(d)
    \/ toggleSite
    \/ Tick

Spec == Init /\ [][Next]_vars

(***************************************************************************)
(* The extension after HISTORY_LIMIT reviews on earlier days, of a card    *)
(* since deleted: the review history is full.                              *)
(***************************************************************************)
FullHistory ==
    [i \in 1..HISTORY_LIMIT |->
        [cardId |-> "c0", deckId |-> "d1", timestamp |-> i - HISTORY_LIMIT - 1,
         grade |-> 2, responseTimeMs |-> 1]]

InitFullHistory ==
    /\ now = 0
    /\ IdleSched
    /\ gin = IdleGrade
    /\ gout = [done |-> FALSE]
    /\ decks = <<"d1", "d2">>
    /\ cards = <<createCard("c1", "d1", 0), createCard("c2", "d2", 0), createCard("c3", "d1", 0)>>
    /\ settings = DEFAULT_SETTINGS
    /\ snoozed = <<>>
    /\ stats = [EmptyStats EXCEPT !.totalReviews = HISTORY_LIMIT, !.reviewHistory = FullHistory]
    /\ paused = <<>>
    /\ currentCard = <<>>
    /\ quiz = IdleQuiz
    /\ response = [type |-> None]
    /\ inflight = <<>>
    /\ IdleFuzzy

NextFullHistory ==
    \/ showQuiz
    \/ \E g \in Grades : handleSubmit(g)
    \/ handleSkip
    \/ Tick

SpecFullHistory == InitFullHistory /\ [][NextFullHistory]_vars

(***************************************************************************)
(* content/content.ts: the quiz on screen.  The user types or selects an   *)
(* answer, presses Enter or clicks the buttons the quiz shows; handleSubmit*)
(* is suspended at its sendMessage until the background has answered.  The *)
(* background handles the card_answered message when it is sent.           *)
(***************************************************************************)
\* The kinds of the stored cards: c2 is a multiple-choice card, the others
\* are text cards.
CardKind(cardId) == IF cardId = "c2" THEN "mcq-single" ELSE "text"

backgroundVars == <<now, schedVars, gradeVars, fuzzyVars, cards, decks, settings, snoozed, stats,
                    paused, response, inflight>>

\* buildQuizHTML and setupQuizEventListeners: empty inputs and the Submit
\* button.
QuizShown == [quiz EXCEPT !.inputsDisabled = FALSE, !.actions = "submit", !.answer = <<>>, !.sent = 0]

showQuizUI ==
    /\ ~quiz.isQuizActive
    /\ handleGetNextCard
    /\ IF response'.data = <<>>
         THEN UNCHANGED <<currentCard, quiz>>
         ELSE /\ currentCard' = <<response'.data[1].id>>
              /\ quiz' = [QuizShown EXCEPT !.isQuizActive = TRUE]

\* The user types an answer or selects an option; grade is what
\* gradeAnswerLocally makes of it.  Disabled inputs ignore the user.
typeAnswer(grade) ==
    /\ quiz.isQuizActive
    /\ ~quiz.inputsDisabled
    /\ quiz.answer # <<grade>>
    /\ quiz' = [quiz EXCEPT !.answer = <<grade>>]
    /\ UNCHANGED <<backgroundVars, currentCard>>

\* handleSubmit up to its await: an empty answer is refused; otherwise
\* disableQuizInteraction and sendMessage card_answered.
handleSubmitSend ==
    /\ currentCard # <<>>
    /\ quiz.answer # <<>>
    /\ handleCardAnswered(currentCard[1], quiz.answer[1], 1)
    /\ quiz' = [quiz EXCEPT
                  !.inputsDisabled = TRUE,
                  !.actions = IF @ = "submit" THEN "hidden" ELSE @,
                  !.awaiting = Append(@, [kind |-> CardKind(currentCard[1]), grade |-> quiz.answer[1]]),
                  !.sent = @ + 1]
    /\ UNCHANGED currentCard

\* handleSubmit after its await: showRetryPractice, showNextCardButton or
\* showContinueButton; they change the controls of the quiz on screen, if any.
handleSubmitResume ==
    /\ quiz.awaiting # <<>>
    /\ LET h == Head(quiz.awaiting)
           retry == h.grade < 2 /\ h.kind = "text"
           shown == IF h.grade >= 2 THEN "continue" ELSE IF retry THEN "retry" ELSE "next"
       IN  quiz' = [quiz EXCEPT
                      !.awaiting = Tail(@),
                      !.isRetryMode = IF retry THEN TRUE ELSE @,
                      !.inputsDisabled = IF retry /\ quiz.isQuizActive THEN FALSE ELSE @,
                      !.actions = IF quiz.isQuizActive THEN shown ELSE @]
    /\ UNCHANGED <<backgroundVars, currentCard>>

\* handleRetrySubmit: the retyped answer is compared with card.back.
handleRetrySubmit(kind, correct) ==
    /\ kind = "text"
    /\ quiz.answer # <<>>
    /\ correct
    /\ quiz' = [quiz EXCEPT !.isRetryMode = FALSE,
                            !.actions = IF quiz.isQuizActive THEN "next" ELSE @]
    /\ UNCHANGED <<backgroundVars, currentCard>>

\* handleKeyDown for the Enter key, pressed while no button has the focus.
handleKeyDown ==
    /\ quiz.isQuizActive
    /\ currentCard # <<>>
    /\ IF quiz.isRetryMode
         THEN \E correct \in BOOLEAN : handleRetrySubmit(CardKind(currentCard[1]), correct)
         ELSE handleSubmitSend

\* The click listener of the Submit button.
clickSubmit ==
    /\ quiz.actions = "submit"
    /\ handleSubmitSend

\* The click listeners of the Confirm and Skip & Next buttons of
\* showRetryPractice.
clickRetryConfirm ==
    /\ quiz.actions = "retry"
    /\ \E correct \in BOOLEAN : handleRetrySubmit("text", correct)

clickRetrySkip ==
    /\ quiz.actions = "retry"
    /\ quiz' = [quiz EXCEPT !.isRetryMode = FALSE, !.actions = "next"]
    /\ UNCHANGED <<backgroundVars, currentCard>>

\* The Next Question button: loadNextCard.
loadNextCard ==
    /\ quiz.actions = "next"
    /\ handleGetNextCard
    /\ IF response'.data = <<>>
         THEN /\ quiz' = [quiz EXCEPT !.isRetryMode = FALSE, !.actions = "continue"]
              /\ UNCHANGED currentCard
         ELSE /\ currentCard' = <<response'.data[1].id>>
              /\ quiz' = [QuizShown EXCEPT !.isRetryMode = FALSE]

\* The Continue Scrolling and Skip & Continue buttons: closeQuiz.
closeQuiz ==
    /\ quiz.actions \in {"continue", "next"}
    /\ quiz' = [quiz EXCEPT !.isQuizActive = FALSE, !.isRetryMode = FALSE, !.inputsDisabled = FALSE,
                            !.actions = None, !.answer = <<>>]
    /\ currentCard' = <<>>
    /\ UNCHANGED backgroundVars

NextQuiz ==
    \/ showQuizUI
    \/ \E g \in Grades : typeAnswer(g)
    \/ clickSubmit
    \/ handleKeyDown
    \/ handleSubmitResume
    \/ clickRetryConfirm
    \/ clickRetrySkip
    \/ loadNextCard
    \/ closeQuiz

SpecQuiz == Init /\ [][NextQuiz]_vars

(***************************************************************************)
(* background/index.ts handleCardAnswered as the event loop runs it: the   *)
(* handler is suspended at every await of chrome.storage, and another      *)
(* message's handler can run in between.  Two card_answered messages for   *)
(* two different cards are in flight; inflight[p] holds handler p's local  *)
(* variables and the await it is suspended at.                             *)
(***************************************************************************)
Handlers == {1, 2}

Suspended(p, at) == inflight[p].pc = at

\* A variant that takes a card that is not in storage for a new card.
getCardOrCreate(p) ==
    /\ Suspended(p, "getCard")
    /\ LET found == CardIndex(inflight[p].cardId)
       IN  inflight' = [inflight EXCEPT
                          ![p].pc = "getCards",
                          ![p].card = IF found = {}
                                        THEN <<createCard(inflight[p].cardId, "d1", now)>>
                                        ELSE <<cards[CHOOSE k \in found : \A j \in found : k <= j]>>]
    /\ UNCHANGED <<now, schedVars, gradeVars, fuzzyVars, cards, decks, settings, snoozed, stats,
                   paused, currentCard, quiz, response>>

\* storage.getCard: chrome.storage.local.get answers with the cards.
getCard(p) ==
    /\ Suspended(p, "getCard")
    /\ LET found == CardIndex(inflight[p].cardId)
       IN  IF found = {}
             THEN /\ inflight' = [inflight EXCEPT ![p].pc = "done"]
                  /\ response' = [type |-> "card_answered", ok |-> FALSE, error |-> "Card not found"]
             ELSE /\ inflight' = [inflight EXCEPT
                                    ![p].pc = "getCards",
                                    ![p].card = <<cards[CHOOSE k \in found : \A j \in found : k <= j]>>]
                  /\ UNCHANGED response
    /\ UNCHANGED <<now, schedVars, gradeVars, fuzzyVars, cards, decks, settings, snoozed, stats,
                   paused, currentCard, quiz>>

\* sm2Update, then saveCard up to its await of getCards.
getCards(p) ==
    /\ Suspended(p, "getCards")
    /\ inflight' = [inflight EXCEPT
                      ![p].pc = "saveCards",
                      ![p].updatedCard = <<sm2Update(inflight[p].card[1], inflight[p].grade, now)>>,
                      ![p].cards = cards]
    /\ UNCHANGED <<now, schedVars, gradeVars, fuzzyVars, cards, decks, settings, snoozed, stats,
                   paused, currentCard, quiz, response>>

\* saveCard after getCards: the card replaced in the list it read, and the
\* list written back.
saveCards(p) ==
    /\ Suspended(p, "saveCards")
    /\ LET list == inflight[p].cards
           hit == {i \in 1..Len(list) : list[i].id = inflight[p].cardId}
           updatedCard == [inflight[p].updatedCard[1] EXCEPT !.updatedAt = now]
       IN  cards' = IF hit # {}
                      THEN [list EXCEPT ![CHOOSE k \in hit : \A j \in hit : k <= j] = updatedCard]
                      ELSE Append(list, updatedCard)
    /\ inflight' = [inflight EXCEPT ![p].pc = "getStats"]
    /\ UNCHANGED <<now, schedVars, gradeVars, fuzzyVars, decks, settings, snoozed, stats,
                   paused, currentCard, quiz, response>>

\* recordReview up to its await of getStats.
getStats(p) ==
    /\ Suspended(p, "getStats")
    /\ inflight' = [inflight EXCEPT
                      ![p].pc = "saveStats",
                      ![p].record = <<[cardId |-> inflight[p].cardId,
                                       deckId |-> inflight[p].card[1].deckId,
                                       timestamp |-> now, grade |-> inflight[p].grade,
                                       responseTimeMs |-> 1]>>,
                      ![p].stats = <<stats>>]
    /\ UNCHANGED <<now, schedVars, gradeVars, fuzzyVars, cards, decks, settings, snoozed, stats,
                   paused, currentCard, quiz, response>>

\* recordReview after getStats: the stats it read, updated and written back.
saveStats(p) ==
    /\ Suspended(p, "saveStats")
    /\ stats' = recordReview(inflight[p].stats[1], inflight[p].record[1])
    /\ inflight' = [inflight EXCEPT ![p].pc = "done"]
    /\ response' = [type |-> "card_answered", ok |-> TRUE]
    /\ UNCHANGED <<now, schedVars, gradeVars, fuzzyVars, cards, decks, settings, snoozed,
                   paused, currentCard, quiz>>

\* Two quizzes, on two different cards, are answered; c9 is a card that has
\* been deleted since its quiz was shown.
InitConcurrent ==
    /\ now = 0
    /\ IdleSched
    /\ gin = IdleGrade
    /\ gout = [done |-> FALSE]
    /\ IdleFuzzy
    /\ decks = <<"d1", "d2">>
    /\ cards = <<createCard("c1", "d1", 0), createCard("c2", "d2", 0), createCard("c3", "d1", 0)>>
    /\ settings = DEFAULT_SETTINGS
    /\ snoozed = <<>>
    /\ stats = EmptyStats
    /\ paused = <<>>
    /\ currentCard = <<>>
    /\ quiz = IdleQuiz
    /\ response = [type |-> None]
    /\ \E ids \in {<<"c1", "c2">>, <<"c2", "c3">>, <<"c3", "c1">>, <<"c9", "c1">>, <<"c2", "c9">>},
          g1 \in Grades, g2 \in Grades :
          inflight = [p \in Handlers |->
                        [pc |-> "getCard", cardId |-> ids[p], grade |-> <<g1, g2>>[p],
                         card |-> <<>>, updatedCard |-> <<>>, cards |-> <<>>,
                         record |-> <<>>, stats |-> <<>>]]

NextConcurrent ==
    \/ \E p \in Handlers : getCard(p)
    \/ \E p \in Handlers : getCards(p)
    \/ \E p \in Handlers : saveCards(p)
    \/ \E p \in Handlers : getStats(p)
    \/ \E p \in Handlers : saveStats(p)
    \/ Tick

SpecConcurrent == InitConcurrent /\ [][NextConcurrent]_vars

(***************************************************************************)
(* Review-order harness: sortCardsForReview applied to a list of cards.    *)
(* The cards are new (created at 0 or at 20), failed once (at 0 or at 20,  *)
(* due 10 minutes later) or passed once with Hard (at 0 or at 20, due one  *)
(* day later); a card's id is its place in the list.                       *)
(***************************************************************************)
SortSchedules ==
    {NewSchedule(t) : t \in {0, 20}}
      \cup {sm2Update(NewSchedule(0), 0, t) : t \in {0, 20}}
      \cup {sm2Update(NewSchedule(0), 1, t) : t \in {0, 20}}

SortTimes == {MIN_PER_DAY + 20, MIN_PER_DAY + 30}

InitSort ==
    /\ now \in SortTimes
    /\ IdleSched
    /\ gin = IdleGrade
    /\ gout = [done |-> FALSE]
    /\ decks = <<>>
    /\ cards = <<>>
    /\ settings = DEFAULT_SETTINGS
    /\ snoozed = <<>>
    /\ stats = EmptyStats
    /\ paused = <<>>
    /\ currentCard = <<>>
    /\ quiz = IdleQuiz
    /\ response = [type |-> None]
    /\ inflight = <<>>
    /\ \E schedules \in SeqsUpTo(SortSchedules, MaxSortLen) :
          fin = [cards |-> [i \in 1..Len(schedules) |-> [id |-> i, deckId |-> "d1"] @@ schedules[i]]]
    /\ fout = [done |-> FALSE]

Sort ==
    /\ fout = [done |-> FALSE]
    /\ fout' = [done |-> TRUE,
                sorted |-> sortCardsForReview(fin.cards, now),
                argument |-> sortCardsForReviewArgument(fin.cards, now)]
    /\ UNCHANGED <<now, schedVars, gradeVars, fin, sysVars>>

NextSort == Sort

SpecSort == InitSort /\ [][NextSort]_vars

(***************************************************************************)
(* Normalisation harness: normalizeText applied to a text, a string of     *)
(* characters to eliminate and a lowercase setting.                        *)
(***************************************************************************)
Texts == SeqsUpTo({"a", "A", " ", "\t", "."}, MaxTextLen)

EliminateStrings ==
    {<<>>, <<".">>, <<"A">>, <<" ">>, <<".", "a">>,
     <<".", ",", "!", "?", "(", ")", "'", "\"">>}

InitNormalize ==
    /\ now = 0
    /\ IdleSched
    /\ gin = IdleGrade
    /\ gout = [done |-> FALSE]
    /\ decks = <<>>
    /\ cards = <<>>
    /\ settings = DEFAULT_SETTINGS
    /\ snoozed = <<>>
    /\ stats = EmptyStats
    /\ paused = <<>>
    /\ currentCard = <<>>
    /\ quiz = IdleQuiz
    /\ response = [type |-> None]
    /\ inflight = <<>>
    /\ fin \in [text : Texts, eliminateChars : EliminateStrings]
    /\ fout = [done |-> FALSE]

Normalize(lowercase) ==
    /\ fout = [done |-> FALSE]
    /\ fout' = [done |-> TRUE, lowercase |-> lowercase,
                normalized |-> normalizeText(fin.text, fin.eliminateChars, lowercase)]
    /\ UNCHANGED <<now, schedVars, gradeVars, fin, sysVars>>

NextNormalize == \E lowercase \in BOOLEAN : Normalize(lowercase)

SpecNormalize == InitNormalize /\ [][NextNormalize]_vars

(***************************************************************************)
(* Review-sequence harness: sm2Update applied to a new card once for each  *)
(* grade of a sequence.                                                    *)
(***************************************************************************)
RECURSIVE ReviewAll(_, _, _)
ReviewAll(c, grades, t) ==
    IF grades = <<>> THEN c
    ELSE ReviewAll(sm2Update(c, Head(grades), t), Tail(grades), t)

InitReviews ==
    /\ now = 0
    /\ IdleSched
    /\ gin = IdleGrade
    /\ gout = [done |-> FALSE]
    /\ decks = <<>>
    /\ cards = <<>>
    /\ settings = DEFAULT_SETTINGS
    /\ snoozed = <<>>
    /\ stats = EmptyStats
    /\ paused = <<>>
    /\ currentCard = <<>>
    /\ quiz = IdleQuiz
    /\ response = [type |-> None]
    /\ inflight = <<>>
    /\ fin \in [grades : SeqsUpTo(Grades, MaxGrades) \ {<<>>}]
    /\ fout = [done |-> FALSE]

Reviews ==
    /\ fout = [done |-> FALSE]
    /\ LET n == Len(fin.grades)
           previous == ReviewAll(createCard("c1", "d1", now), SubSeq(fin.grades, 1, n - 1), now)
       IN  fout' = [done |-> TRUE, previous |-> previous,
                    reviewed |-> sm2Update(previous, fin.grades[n], now)]
    /\ UNCHANGED <<now, schedVars, gradeVars, fin, sysVars>>

NextReviews == Reviews

SpecReviews == InitReviews /\ [][NextReviews]_vars

(***************************************************************************)
(* Fuzzy-matching harness: levenshteinDistance and similarity applied to   *)
(* the pairs of three strings.                                             *)
(***************************************************************************)
FuzzyStrings == SeqsUpTo({"a", "b"}, MaxFuzzyLen)

InitFuzzy ==
    /\ now = 0
    /\ IdleSched
    /\ gin = IdleGrade
    /\ gout = [done |-> FALSE]
    /\ decks = <<>>
    /\ cards = <<>>
    /\ settings = DEFAULT_SETTINGS
    /\ snoozed = <<>>
    /\ stats = EmptyStats
    /\ paused = <<>>
    /\ currentCard = <<>>
    /\ quiz = IdleQuiz
    /\ response = [type |-> None]
    /\ inflight = <<>>
    /\ fin \in [a : FuzzyStrings, b : FuzzyStrings, c : FuzzyStrings]
    /\ fout = [done |-> FALSE]

\* Lists of candidates made of the strings b and c.
CandidateLists ==
    {<<>>, <<fin.b>>, <<fin.b, fin.c>>, <<fin.c, fin.b>>, <<fin.b, fin.c, fin.b>>}

FindBest ==
    /\ fout = [done |-> FALSE]
    /\ \E candidates \in CandidateLists :
          fout' = [done |-> FALSE, candidates |-> candidates,
                   best |-> findBestMatch(fin.a, candidates)]
    /\ UNCHANGED <<now, schedVars, gradeVars, fin, sysVars>>

Measure ==
    /\ fout = [done |-> FALSE]
    /\ fout' = [done |-> TRUE,
                distance |-> [ab |-> levenshteinDistance(fin.a, fin.b),
                              ba |-> levenshteinDistance(fin.b, fin.a),
                              bc |-> levenshteinDistance(fin.b, fin.c),
                              ac |-> levenshteinDistance(fin.a, fin.c),
                              aa |-> levenshteinDistance(fin.a, fin.a)],
                score |-> [ab |-> similarity(fin.a, fin.b),
                           ba |-> similarity(fin.b, fin.a),
                           aa |-> similarity(fin.a, fin.a)]]
    /\ UNCHANGED <<now, schedVars, gradeVars, fin, sysVars>>

NextFuzzy == Measure \/ FindBest

SpecFuzzy == InitFuzzy /\ [][NextFuzzy]_vars

(***************************************************************************)
(* A collection with one card more than handleGetNextCard asks getDueCards *)
(* for, all of them imported at time 0 and due; the user skips the quizzes.*)
(***************************************************************************)
ManyCards == DUE_LIMIT + 1

InitManyCards ==
    /\ now = 0
    /\ IdleSched
    /\ gin = IdleGrade
    /\ gout = [done |-> FALSE]
    /\ decks = <<"d1">>
    /\ cards = [i \in 1..ManyCards |-> createCard(ToString(i), "d1", 0)]
    /\ settings = DEFAULT_SETTINGS
    /\ snoozed = <<>>
    /\ stats = EmptyStats
    /\ paused = <<>>
    /\ currentCard = <<>>
    /\ quiz = IdleQuiz
    /\ response = [type |-> None]
    /\ inflight = <<>>
    /\ IdleFuzzy

NextManyCards ==
    \/ showQuiz
    \/ handleSkip

SpecManyCards == InitManyCards /\ [][NextManyCards]_vars

(***************************************************************************)
(* Claims about the scheduler.                                             *)
(***************************************************************************)
Reviewed == upd.done

C2_IntervalBounds ==
    /\ card.repetitions > 0 => (card.intervalDays >= 1 /\ card.intervalDays <= 365)
    /\ (Reviewed /\ upd.grade \in 1..3 /\ upd.card.repetitions >= 2)
          => (card.intervalDays >= 1 /\ card.intervalDays <= 365)

\* C2 witness: a successful review of a card with repetitions >= 2 whose
\* formula value exceeds a year and is clamped to 365.
C2_Witness ==
    /\ Reviewed /\ upd.grade \in 1..3 /\ upd.card.repetitions >= 2
    /\ upd.card.intervalDays * upd.card.ease > 36500
    /\ card.intervalDays = 365

\* C3: sm2Update with grade 0 returns repetitions = 0 and due exactly
\* now + 10 minutes, whatever the prior state was.
C3_FailResets ==
    (Reviewed /\ upd.grade = 0) => (card.repetitions = 0 /\ card.due = upd.now + 10)

\* C3 witness: the failed card had 5 repetitions and a 30 day interval.
C3_Witness ==
    /\ Reviewed /\ upd.grade = 0
    /\ upd.card.repetitions = 5 /\ upd.card.intervalDays = 30
    /\ card.repetitions = 0 /\ card.due = upd.now + 10

\* The interval the scheduler contract gives for a successful grade g.
ContractInterval(reps, prevInterval, ease, g) ==
    IF reps = 0 THEN <<1, 1, 4>>[g]
    ELSE IF reps = 1 THEN <<3, 6, 10>>[g]
    ELSE LET x10 == prevInterval * ease * <<8, 10, 13>>[g]   \* thousandths of a day
             r   == (x10 + 500) \div 1000
         IN  IF r < 1 THEN 1 ELSE IF r > 365 THEN 365 ELSE r

\* C6: for a successful grade the new intervalDays is the first-review
\* table, the second-review table, or round(prevInterval * ease * factor)
\* clamped to [1, 365], with the ease before the update.
C6_IntervalFormula ==
    (Reviewed /\ upd.grade \in 1..3) =>
        card.intervalDays =
            ContractInterval(upd.card.repetitions, upd.card.intervalDays, upd.card.ease, upd.grade)

\* C6 witness: ease 2.5, interval 6, repetitions 2, grade 2 gives 15.
C6_Witness ==
    /\ Reviewed /\ upd.grade = 2
    /\ upd.card.repetitions = 2 /\ upd.card.intervalDays = 6 /\ upd.card.ease = 250
    /\ card.intervalDays = 15

\* C7: the returned card has due >= now; due = now + intervalDays' days for
\* grades 1..3 and now + 10 minutes for grade 0; the card is not due
\* (due <= now) until at least 10 minutes have elapsed.
C7_DueInFuture ==
    Reviewed =>
        /\ card.due >= upd.now
        /\ upd.grade \in 1..3 => card.due = upd.now + card.intervalDays * 1440
        /\ upd.grade = 0 => card.due = upd.now + 10
        /\ now < upd.now + 10 => ~(card.due <= now)

\* C7 witness: time has passed since a failed review and the card is not yet due.
C7_Witness ==
    /\ Reviewed /\ upd.grade = 0
    /\ now > upd.now /\ now < upd.now + 10
    /\ card.due > now

\* C8: after a grade-0 review the interval is 1 day and the preview for
\* grade 0 reads '1 day'.
C8_FailIntervalOneDay ==
    (Reviewed /\ upd.grade = 0) => (card.intervalDays = 1 /\ upd.preview[0] = "1 day")

Graded == gout.done

KnownKinds == {"mcq-single", "mcq-multi", "text", "cloze", "audio"}

\* C5: gradeAnswer never throws and returns a grade in {0, 1, 2, 3} for
\* every well-typed card, answer and settings; a card of an unknown kind
\* grades 0.
C5_GradeInRange ==
    Graded =>
        /\ gout.result.ok
        /\ gout.result.grade \in {0, 1, 2, 3}
        /\ gin.card.kind \notin KnownKinds => gout.result.grade = 0

\* C5 witness: a text card whose acceptedRegex is malformed was graded on
\* an answer that is not an exact match, and a grade came back.
C5_Witness ==
    /\ Graded
    /\ gin.card.kind = "text"
    /\ gin.card.acceptedRegex # <<>> /\ ~gin.card.acceptedRegex[1].valid
    /\ gout.result.ok /\ gout.result.grade < 3

SeqToSet(seq) == {seq[i] : i \in 1..Len(seq)}

\* The grade of the mcq-multi contract, on the two sets of indices.
SetGrade(selected, correct) ==
    LET tp == Cardinality(selected \cap correct)
        fp == Cardinality(selected \ correct)
        fn == Cardinality(correct \ selected)
    IN  IF selected = {} /\ correct = {} THEN 3
        ELSE IF 20 * tp >= 9 * (2 * tp + fp + fn) THEN 3
        ELSE IF 20 * tp >= 6 * (2 * tp + fp + fn) THEN 2
        ELSE IF 20 * tp >= 2 * (2 * tp + fp + fn) THEN 1
        ELSE 0

\* C10: for an mcq-multi card the grade depends only on the sets of
\* selected and correct indices: 3 when both are empty, otherwise by
\* TP / (TP + 0.5 * (FP + FN)) against 0.9, 0.6 and 0.2.
C10_McqMultiSetGrade ==
    (Graded /\ gin.card.kind = "mcq-multi") =>
        /\ gout.result.ok
        /\ gout.result.grade =
              SetGrade(SeqToSet(gin.answer.indices), SeqToSet(gin.card.correct.indices))

(***************************************************************************)
(* Claims about the card served to the content script.                     *)
(***************************************************************************)
\* The deck d has a card that is due and not snoozed at time t.
DeckAvailable(d, t) ==
    \E i \in 1..Len(cards) :
        /\ cards[i].deckId = d
        /\ cards[i].due <= t
        /\ ~isCardSnoozed(cards[i].id, t)

\* The deck of the card with this id.
DeckOf(cardId) == cards[CHOOSE i \in CardIndex(cardId) : TRUE].deckId

\* C4: whenever the active deck (settings.activeDeckId) has a due,
\* non-snoozed card, the card a get-next-card request serves belongs to the
\* active deck and activeDeckId is left as it was.
C4_StickyActiveDeck ==
    [][ ( /\ currentCard = <<>> /\ currentCard' # <<>>
          /\ settings.activeDeckId # None
          /\ DeckAvailable(settings.activeDeckId, now) )
        => ( /\ DeckOf(currentCard'[1]) = settings.activeDeckId
             /\ settings'.activeDeckId = settings.activeDeckId ) ]_vars

(***************************************************************************)
(* Claims about text, audio and cloze grading.                             *)
(***************************************************************************)
TextKinds == {"text", "audio"}

GradedText == Graded /\ gin.card.kind \in TextKinds

\* The normalized form of the graded answer.
NormalizedAnswer ==
    normalizeText(gin.answer.text, gin.settings.eliminateChars, gin.settings.lowercaseNormalization)

\* The canonical answers the graded text card is compared with.
CanonicalList ==
    IF gin.card.canonicalAnswers # <<>> THEN gin.card.canonicalAnswers[1]
    ELSE <<normalizeText(gin.card.back, gin.settings.eliminateChars,
                         gin.settings.lowercaseNormalization)>>

ExactAnswer == \E i \in 1..Len(CanonicalList) : CanonicalList[i] = NormalizedAnswer

\* The card's acceptedRegex is a working pattern that matches the answer,
\* raw or normalized.
RegexAccepts ==
    /\ gin.card.acceptedRegex # <<>>
    /\ gin.card.acceptedRegex[1].valid
    /\ gin.card.acceptedRegex[1].literal # <<>>
    /\ \/ Contains(toLowerCase(gin.answer.text), toLowerCase(gin.card.acceptedRegex[1].literal))
       \/ Contains(toLowerCase(NormalizedAnswer), toLowerCase(gin.card.acceptedRegex[1].literal))

\* The front starts with 'definition:' or a tag equals 'term', whatever the case.
StrictDefinition ==
    \/ startsWith(toLowerCase(trim(gin.card.front)), <<"d", "e", "f", "i", "n", "i", "t", "i", "o", "n", ":">>)
    \/ /\ gin.card.tags # <<>>
       /\ \E i \in 1..Len(gin.card.tags[1]) : toLowerCase(gin.card.tags[1][i]) = <<"t", "e", "r", "m">>

\* The best similarity of the normalized answer to a canonical answer, as
\* a set maximum: some canonical answer reaches the score t (hundredths).
BestAtLeast(t) ==
    \/ t <= 0
    \/ \E i \in 1..Len(CanonicalList) : ScoreGE(similarity(NormalizedAnswer, CanonicalList[i]), t)

\* C11: on a strict definition card (text or audio) an answer that is not
\* an exact match and matches no acceptedRegex grades 0 for every
\* similarity and every threshold setting; an exact match grades 3.
C11_StrictDefinition ==
    (GradedText /\ StrictDefinition) =>
        /\ ExactAnswer => gout.result = Returns(3)
        /\ (~ExactAnswer /\ ~RegexAccepts) => gout.result = Returns(0)

\* C11 witness: a strict definition card, an answer that is not exact but
\* as similar as the high threshold asks, graded 0.
C11_Witness ==
    /\ GradedText /\ StrictDefinition
    /\ ~ExactAnswer /\ ~RegexAccepts
    /\ BestAtLeast(gin.settings.fuzzyThresholds.high)
    /\ gout.result = Returns(0)

\* A single token: not empty and without whitespace between its ends.
SingleToken(answer) ==
    trim(answer) # <<>> /\ \A i \in 1..Len(trim(answer)) : ~IsWhitespace(trim(answer)[i])

\* Several words: whitespace between its ends.
MultiWord(answer) == \E i \in 1..Len(trim(answer)) : IsWhitespace(trim(answer)[i])

\* The grade the fuzzy thresholds give the best similarity.
MappedGrade ==
    IF BestAtLeast(gin.settings.fuzzyThresholds.high) THEN 3
    ELSE IF BestAtLeast(gin.settings.fuzzyThresholds.medium) THEN 2
    ELSE IF BestAtLeast(gin.settings.fuzzyThresholds.low) THEN 1
    ELSE 0

\* C12: on a text or audio card that is not a strict definition card, an
\* answer that is neither exact nor a regex match grades 1 or 0 (1 exactly
\* when the best similarity reaches the low threshold) if every canonical
\* answer is a single token, and is mapped by the thresholds (high 3,
\* medium 2, low 1, else 0) if some canonical answer has several words.
C12_SingleTermCap ==
    (GradedText /\ ~StrictDefinition /\ ~ExactAnswer /\ ~RegexAccepts) =>
        /\ (\A i \in 1..Len(CanonicalList) : SingleToken(CanonicalList[i]))
              => gout.result = Returns(IF BestAtLeast(gin.settings.fuzzyThresholds.low) THEN 1 ELSE 0)
        /\ (\E i \in 1..Len(CanonicalList) : MultiWord(CanonicalList[i]))
              => gout.result = Returns(MappedGrade)

\* C12 witness: canonical 'paris', input 'pariz', similarity 0.8 under the
\* default thresholds, graded 1.
C12_Witness ==
    /\ GradedText /\ ~StrictDefinition
    /\ CanonicalList = << <<"p", "a", "r", "i", "s">> >>
    /\ NormalizedAnswer = <<"p", "a", "r", "i", "z">>
    /\ similarity(NormalizedAnswer, CanonicalList[1]) = <<4, 5>>
    /\ gin.settings.fuzzyThresholds = DEFAULT_THRESHOLDS
    /\ gout.result = Returns(1)

GradedCloze == Graded /\ gin.card.kind = "cloze"

\* The blanks of the graded cloze card and the segments of the answer.
Blanks == IF gin.card.canonicalAnswers # <<>> THEN gin.card.canonicalAnswers[1] ELSE <<>>
Segments == split(gin.answer.text)

\* The grade of position i: the normalized segment i against blank i, a
\* missing segment or blank counting as the empty string.
PositionGrade(i) ==
    LET expected == IF i \in DOMAIN Blanks THEN Blanks[i] ELSE <<>>
        segment == IF i \in DOMAIN Segments THEN Segments[i] ELSE <<>>
        actual == normalizeText(segment, gin.settings.eliminateChars,
                                gin.settings.lowercaseNormalization)
        score == similarity(actual, expected)
    IN  IF actual = expected THEN 3
        ELSE IF ScoreGE(score, gin.settings.fuzzyThresholds.high) THEN 3
        ELSE IF ScoreGE(score, gin.settings.fuzzyThresholds.medium) THEN 2
        ELSE IF ScoreGE(score, gin.settings.fuzzyThresholds.low) THEN 1
        ELSE 0

\* The sum of the grades of positions 1..k.
RECURSIVE PositionSum(_)
PositionSum(k) == IF k = 0 THEN 0 ELSE PositionGrade(k) + PositionSum(k - 1)

\* The rounding of the average sum / count: >= 2.5 is 3, >= 1.5 is 2,
\* >= 0.5 is 1, else 0.
RoundedAverage(sum, count) ==
    IF 2 * sum >= 5 * count THEN 3
    ELSE IF 2 * sum >= 3 * count THEN 2
    ELSE IF 2 * sum >= count THEN 1
    ELSE 0

MissingAnswerData ==
    /\ gin.card.canonicalAnswers \in {<<>>, << <<>> >>}
    /\ gin.card.back = <<>>

\* C14: a text or audio card with no canonicalAnswers and an empty back
\* grades 0 for every user answer, and grading it does not throw.
C14_MissingDataGradesZero ==
    (GradedText /\ MissingAnswerData) => gout.result = Returns(0)

(***************************************************************************)
(* Claims about get_next_card_for_domain.                                  *)
(***************************************************************************)
\* A step in which a get-next-card request is answered.
RequestStep ==
    /\ currentCard = <<>>
    /\ now' = now
    /\ response'.type = "get_next_card_for_domain"

\* The site is neither paused nor disabled, so the request reaches the
\* selection of a card.
SiteActive ==
    /\ settings.domainEnabled
    /\ ~\E j \in 1..Len(paused) : paused[j].domain = Domain /\ paused[j].until > now

SnoozedNow(cardId) ==
    \E j \in 1..Len(snoozed) : snoozed[j].cardId = cardId /\ snoozed[j].until > now

\* The cards that are due and not snoozed.
Available == {i \in 1..Len(cards) : cards[i].due <= now /\ ~SnoozedNow(cards[i].id)}

\* C15: a get-next-card request returns null when no due card is
\* un-snoozed, and otherwise a card that is due (due <= now) and not
\* snoozed; it never returns a snoozed card or one due in the future.
C15_ServesAvailableCard ==
    [][ RequestStep =>
          /\ response'.data # <<>> => \E i \in Available : response'.data[1] = cards[i]
          /\ SiteActive => (Available = {} <=> response'.data = <<>>) ]_vars

\* The deck k places after position p in the decks' order, wrapping around.
DeckAfter(p, k) == decks[((p - 1 + k) % Len(decks)) + 1]

\* The first deck after d, in the decks' order and wrapping around, that
\* has a due, non-snoozed card.
NextDeckAfter(d) ==
    LET p == CHOOSE i \in 1..Len(decks) : decks[i] = d
        k == CHOOSE j \in 1..Len(decks) :
                /\ DeckAvailable(DeckAfter(p, j), now)
                /\ \A h \in 1..(j - 1) : ~DeckAvailable(DeckAfter(p, h), now)
    IN  DeckAfter(p, k)

\* C16: when the active deck has no due, non-snoozed card while another
\* deck has one, the request serves a card of the next deck after
\* activeDeckId in the decks' order (wrapping, skipping decks without an
\* available card) and writes that deck to settings.activeDeckId.
C16_AdvanceToNextDeck ==
    [][ ( /\ RequestStep /\ SiteActive
          /\ \E i \in 1..Len(decks) : decks[i] = settings.activeDeckId
          /\ ~DeckAvailable(settings.activeDeckId, now)
          /\ \E i \in 1..Len(decks) : DeckAvailable(decks[i], now) )
        => ( /\ response'.data # <<>>
             /\ response'.data[1].deckId = NextDeckAfter(settings.activeDeckId)
             /\ settings'.activeDeckId = NextDeckAfter(settings.activeDeckId) ) ]_vars

(***************************************************************************)
(* Claims about concurrent card_answered messages.                         *)
(***************************************************************************)
BothAnswered == \A p \in Handlers : Suspended(p, "done") /\ inflight[p].card # <<>>

\* The card with this id, as stored.
StoredCard(cardId) == cards[CHOOSE i \in 1..Len(cards) : cards[i].id = cardId]

\* C17: two card_answered messages for two different cards, handled
\* concurrently, leave what handling them one after the other leaves: both
\* cards carry their updated scheduling and both reviews are recorded.
C17_NoLostUpdate ==
    BothAnswered =>
        /\ \A p \in Handlers :
              LET stored == StoredCard(inflight[p].cardId)
                  before == inflight[p].card[1]
              IN  /\ stored.repetitions = (IF inflight[p].grade = 0 THEN 0 ELSE before.repetitions + 1)
                  /\ stored.lapses = (IF inflight[p].grade = 0 THEN before.lapses + 1 ELSE before.lapses)
                  /\ stored.due > before.due
        /\ stats.totalReviews = Cardinality(Handlers)
        /\ \A p \in Handlers :
              \E i \in 1..Len(stats.reviewHistory) :
                  stats.reviewHistory[i].cardId = inflight[p].cardId

(***************************************************************************)
(* Claims about what sm2Update leaves alone.                               *)
(***************************************************************************)
ScheduleFields == {"due", "intervalDays", "ease", "repetitions", "lapses", "updatedAt"}

ContentFields ==
    {"id", "deckId", "kind", "front", "back", "options", "correct", "canonicalAnswers",
     "acceptedRegex", "tags", "createdAt"}

Measured == fout.done

\* C19: similarity(a, b) is in [0, 1]; similarity(a, a) = 1, also for the
\* empty string; similarity(a, b) = similarity(b, a); the empty string and
\* a non-empty string score 0; and for non-empty a # b the score is
\* 1 - levenshteinDistance(a, b) / max(len(a), len(b)).
C19_Similarity ==
    Measured =>
        LET ab == fout.score.ab
            ba == fout.score.ba
            aa == fout.score.aa
            maxLength == Max(Len(fin.a), Len(fin.b))
        IN  /\ ab[2] > 0 /\ 0 <= ab[1] /\ ab[1] <= ab[2]
            /\ aa[1] = aa[2]
            /\ ab[1] * ba[2] = ba[1] * ab[2]
            /\ ((fin.a = <<>>) # (fin.b = <<>>)) => ab[1] = 0
            /\ (fin.a # <<>> /\ fin.b # <<>> /\ fin.a # fin.b)
                  => ab[1] * maxLength = (maxLength - fout.distance.ab) * ab[2]

C19_Witness ==
    /\ Measured
    /\ fin.a = <<"a", "a", "a">> /\ fin.b = <<"b">>
    /\ fout.score.ab[1] = 0 /\ fout.score.aa[1] = fout.score.aa[2]

\* The unit-cost insert/delete/substitute edit distance, by its recurrence
\* on the first characters.
RECURSIVE EditDistance(_, _)
EditDistance(a, b) ==
    IF a = <<>> THEN Len(b)
    ELSE IF b = <<>> THEN Len(a)
    ELSE Min3(EditDistance(Tail(a), b) + 1,
              EditDistance(a, Tail(b)) + 1,
              EditDistance(Tail(a), Tail(b)) + (IF Head(a) = Head(b) THEN 0 ELSE 1))

\* C20: levenshteinDistance returns the unit-cost edit distance: it is
\* symmetric, it is 0 exactly when a = b, and
\* distance(a, c) <= distance(a, b) + distance(b, c).
C20_EditDistance ==
    Measured =>
        /\ fout.distance.ab = EditDistance(fin.a, fin.b)
        /\ fout.distance.ab = fout.distance.ba
        /\ fout.distance.ab = 0 <=> fin.a = fin.b
        /\ fout.distance.aa = 0
        /\ fout.distance.ac <= fout.distance.ab + fout.distance.bc

C20_Witness ==
    /\ Measured
    /\ fin.a = <<"a", "b", "a">> /\ fin.b = <<"b", "a">> /\ fin.c = <<"b", "b", "b">>
    /\ fout.distance.ab = 1 /\ fout.distance.bc = 2 /\ fout.distance.ac = 2

(***************************************************************************)
(* Claims about findBestMatch.                                             *)
(***************************************************************************)
Matched == "best" \in DOMAIN fout

\* C21: findBestMatch returns {match: null, score: 0, index: -1} for an
\* empty list of candidates; for a non-empty list it returns the candidate
\* with the highest similarity to the input, with its score and its index,
\* and the lowest index among the candidates that share the highest score.
C21_BestMatch ==
    Matched =>
        LET candidates == fout.candidates
            best == fout.best
            Score(i) == similarity(fin.a, candidates[i])
        IN  IF candidates = <<>>
              THEN best = [match |-> <<>>, score |-> <<0, 1>>, index |-> -1]
              ELSE /\ best.index + 1 \in DOMAIN candidates
                   /\ best.match = <<candidates[best.index + 1]>>
                   /\ best.score = Score(best.index + 1)
                   /\ \A i \in DOMAIN candidates : ~ScoreGT(Score(i), best.score)
                   /\ \A i \in 1..best.index : ScoreGT(best.score, Score(i))

(***************************************************************************)
(* Claims about sortCardsForReview.                                        *)
(***************************************************************************)
Sorted == "sorted" \in DOMAIN fout

\* Every review increments repetitions or lapses.
NeverReviewed(c) == c.repetitions = 0 /\ c.lapses = 0

\* C22: sortCardsForReview returns a permutation of its input and leaves the
\* input as it was; every never-reviewed card precedes every reviewed card;
\* the reviewed cards are in descending order of now - due; and cards that
\* compare equal keep their input order.
C22_ReviewOrder ==
    Sorted =>
        LET out == fout.sorted
        IN  /\ fout.argument = fin.cards
            /\ Len(out) = Len(fin.cards)
            /\ {out[k].id : k \in DOMAIN out} = DOMAIN fin.cards
            /\ \A k \in DOMAIN out : out[k] = fin.cards[out[k].id]
            /\ \A i, j \in DOMAIN out :
                  (NeverReviewed(out[i]) /\ ~NeverReviewed(out[j])) => i < j
            /\ \A i, j \in DOMAIN out :
                  (i < j /\ ~NeverReviewed(out[i]) /\ ~NeverReviewed(out[j]))
                      => now - out[i].due >= now - out[j].due
            /\ \A i, j \in DOMAIN out :
                  (i < j /\ ~ReviewBefore(out[i], out[j], now) /\ ~ReviewBefore(out[j], out[i], now))
                      => out[i].id < out[j].id

(***************************************************************************)
(* Claims about normalizeText.                                             *)
(***************************************************************************)
Normalized == "normalized" \in DOMAIN fout

\* C23: the result of normalizeText contains no character that occurs in
\* eliminateChars; its only whitespace is single spaces between characters
\* that are not whitespace; and it is empty when the text is empty or only
\* whitespace.
C23_Normalized ==
    Normalized =>
        LET out == fout.normalized
        IN  /\ \A i \in DOMAIN out, k \in DOMAIN fin.eliminateChars : out[i] # fin.eliminateChars[k]
            /\ \A i \in DOMAIN out :
                  IsWhitespace(out[i]) =>
                      /\ out[i] = " "
                      /\ 1 < i /\ i < Len(out)
                      /\ ~IsWhitespace(out[i - 1]) /\ ~IsWhitespace(out[i + 1])
            /\ (\A i \in DOMAIN fin.text : IsWhitespace(fin.text[i])) => out = <<>>

(***************************************************************************)
(* Claims about skipped cards.                                             *)
(***************************************************************************)
SkipStep ==
    /\ currentCard # <<>>
    /\ response'.type = "skip_card"

\* The card was skipped and its snooze has run out.
SnoozeExpired(cardId) ==
    /\ \E j \in 1..Len(snoozed) : snoozed[j].cardId = cardId /\ snoozed[j].until <= now
    /\ ~SnoozedNow(cardId)

\* C24: skip_card(cardId, 10 minutes) snoozes the card until 10 minutes
\* later and leaves the cards, so their scheduling fields, as they were; no
\* step, a skip of another card included, removes or shortens a snooze that
\* has not expired; a get-next-card request never serves a card whose
\* snooze has not expired; and once the snooze has expired and the card is
\* still due, a request serves it, or a card that does not come after it
\* in the review order.
C24_SnoozeHolds ==
    [][ /\ SkipStep =>
              /\ \E k \in 1..Len(snoozed') :
                    snoozed'[k] = [cardId |-> currentCard[1], until |-> now + 10]
              /\ cards' = cards
        /\ \A j \in 1..Len(snoozed) :
              snoozed[j].until > now' =>
                  \E k \in 1..Len(snoozed') :
                      /\ snoozed'[k].cardId = snoozed[j].cardId
                      /\ snoozed'[k].until >= snoozed[j].until
        /\ (RequestStep /\ response'.data # <<>>) => ~SnoozedNow(response'.data[1].id)
        /\ (RequestStep /\ SiteActive) =>
              \A i \in 1..Len(cards) :
                  (cards[i].due <= now /\ SnoozeExpired(cards[i].id)) =>
                      /\ response'.data # <<>>
                      /\ \/ response'.data[1] = cards[i]
                         \/ ~ReviewBefore(cards[i], response'.data[1], now) ]_vars

C24_Witness ==
    /\ now = 10
    /\ snoozed = <<[cardId |-> "c1", until |-> 10], [cardId |-> "c2", until |-> 15]>>
    /\ response.type = "get_next_card_for_domain"
    /\ currentCard = <<"c1">>

(***************************************************************************)
(* Claims about the review history.                                        *)
(***************************************************************************)
AnswerStep ==
    /\ currentCard # <<>>
    /\ response'.type = "card_answered"
    /\ response'.ok

\* C25: the review history is append-only.  A card_answered that succeeds
\* appends exactly one record {cardId, deckId, timestamp, grade,
\* responseTimeMs} for the card answered; no step removes or alters a record
\* of the history; and the card's new schedule is computed from the card,
\* the grade and the time alone.
C25_AppendOnlyHistory ==
    [][ /\ \A i \in 1..Len(stats.reviewHistory) :
              /\ i <= Len(stats'.reviewHistory)
              /\ stats'.reviewHistory[i] = stats.reviewHistory[i]
        /\ AnswerStep =>
              LET before == StoredCard(currentCard[1])
                  history == stats'.reviewHistory
                  record == history[Len(history)]
              IN  /\ Len(history) = Len(stats.reviewHistory) + 1
                  /\ DOMAIN record = {"cardId", "deckId", "timestamp", "grade", "responseTimeMs"}
                  /\ record.cardId = before.id /\ record.deckId = before.deckId
                  /\ record.timestamp = now /\ record.grade \in Grades
                  /\ cards' = [i \in 1..Len(cards) |->
                                 IF cards[i].id = before.id
                                   THEN sm2Update(before, record.grade, now) ELSE cards[i]]
        /\ ~AnswerStep => stats'.reviewHistory = stats.reviewHistory ]_vars

(***************************************************************************)
(* Claims about the ease and the counters of a card.                       *)
(***************************************************************************)
\* The card after n more reviews with the same grade.
RECURSIVE ReviewedTimes(_, _, _)
ReviewedTimes(c, grade, n) ==
    IF n = 0 THEN c ELSE ReviewedTimes(sm2Update(c, grade, now), grade, n - 1)

\* The number of steps of the given size from the ease to the limit.
StepsBetween(ease, limit, step) ==
    IF ease > limit THEN (ease - limit + step - 1) \div step
    ELSE (limit - ease + step - 1) \div step

\* C26: the new ease is max(1.3, ease - 0.2) for grade 0 and
\* clamp(ease + delta, 1.3, 3.5) with delta -0.15, 0, +0.15 for grades 1, 2,
\* 3; repeated failures bring the ease to exactly 1.3 and repeated Easy
\* grades to exactly 3.5, and there it stays.
C26_EaseUpdate ==
    /\ Reviewed =>
          card.ease =
             CASE upd.grade = 0 -> Max(130, upd.card.ease - 20)
               [] upd.grade = 1 -> Max(130, Min(350, upd.card.ease - 15))
               [] upd.grade = 2 -> Max(130, Min(350, upd.card.ease))
               [] upd.grade = 3 -> Max(130, Min(350, upd.card.ease + 15))
    /\ ~Reviewed =>
          LET failures == StepsBetween(card.ease, 130, 20)
              easies == StepsBetween(card.ease, 350, 15)
          IN  /\ \A n \in {failures, failures + 1} :
                    n > 0 => ReviewedTimes(card, 0, n).ease = 130
              /\ \A n \in {easies, easies + 1} :
                    n > 0 => ReviewedTimes(card, 3, n).ease = 350

C26_Witness ==
    /\ Reviewed
    /\ upd.grade = 3 /\ upd.card.ease = 340 /\ card.ease = 350
    /\ ReviewedTimes(card, 0, 11).ease = 130
    /\ ReviewedTimes(card, 0, 10).ease = 150

ReviewsDone == "reviewed" \in DOMAIN fout

\* The place of the last grade 0 in the sequence, 0 if there is none.
LastFailure(grades) ==
    LET failures == {i \in 1..Len(grades) : grades[i] = 0}
    IN  IF failures = {} THEN 0 ELSE CHOOSE i \in failures : \A j \in failures : j <= i

\* C27: a review with grade 1, 2 or 3 increments repetitions by exactly 1
\* and leaves lapses unchanged; a review with grade 0 increments lapses by
\* exactly 1; after a sequence of reviews of a new card, lapses is the
\* number of grade-0 reviews and repetitions is the number of successful
\* reviews since the last grade-0 review.
C27_Counters ==
    ReviewsDone =>
        LET grades == fin.grades
            last == grades[Len(grades)]
        IN  /\ last \in 1..3 =>
                  /\ fout.reviewed.repetitions = fout.previous.repetitions + 1
                  /\ fout.reviewed.lapses = fout.previous.lapses
            /\ last = 0 => fout.reviewed.lapses = fout.previous.lapses + 1
            /\ fout.reviewed.lapses = Cardinality({i \in 1..Len(grades) : grades[i] = 0})
            /\ fout.reviewed.repetitions = Len(grades) - LastFailure(grades)

C27_Witness ==
    /\ ReviewsDone
    /\ fin.grades = <<2, 0, 3, 0, 1>>
    /\ fout.reviewed.lapses = 2 /\ fout.reviewed.repetitions = 1

(***************************************************************************)
(* Claims about the grade the content script sends.                        *)
(***************************************************************************)
\* C28: for every card kind, the grade gradeAnswerLocally computes for a
\* submitted answer equals the grade gradeAnswer of the grading module
\* returns for the same card, answer and settings.
C28_LocalGradeAgrees ==
    gout.done => gout.result = Returns(gout.local)

(***************************************************************************)
(* Claims about card_answered for a card that is not in storage.           *)
(***************************************************************************)
\* Handler p found no card with its cardId and has returned.
NotFound(p) == Suspended(p, "done") /\ inflight[p].card = <<>>

\* C29: a card_answered message whose cardId is not in storage returns the
\* error 'Card not found' and changes nothing: no card is written, no
\* review is recorded, the statistics are untouched, and the handler takes
\* no further step.
C29_CardNotFound ==
    [][ \A p \in Handlers :
          /\ ( /\ Suspended(p, "getCard")
               /\ inflight'[p] # inflight[p]
               /\ CardIndex(inflight[p].cardId) = {} )
             => /\ response' = [type |-> "card_answered", ok |-> FALSE, error |-> "Card not found"]
                /\ inflight'[p] = [inflight[p] EXCEPT !.pc = "done"]
                /\ cards' = cards /\ stats' = stats
          /\ NotFound(p)
             => /\ inflight'[p] = inflight[p]
                /\ \A i \in 1..Len(cards') : cards'[i].id # inflight[p].cardId
                /\ \A i \in 1..Len(stats'.reviewHistory) :
                      stats'.reviewHistory[i].cardId # inflight[p].cardId ]_vars

C29_Witness ==
    /\ \E p \in Handlers : NotFound(p) /\ inflight[p].cardId = "c9"
    /\ response = [type |-> "card_answered", ok |-> FALSE, error |-> "Card not found"]
    /\ stats.totalReviews = 1


(***************************************************************************)
(* Claims about the quiz on screen.                                        *)
(***************************************************************************)
\* C30: for each presentation of a card in the quiz at most one
\* card_answered message is sent, whatever key presses and clicks follow the
\* first submission: while the call is pending, in retry-practice mode and
\* after it.
C30_AtMostOneAnswer == quiz.sent <= 1

====
